---------------------------- MODULE Spec2Model ----------------------------
(***************************************************************************)
(* A model of the sim65 emulator core: the 6502 CPU (src/src/cpu.c), the   *)
(* address-decoded bus (src/src/bus.c, src/memory.c), the ACIA             *)
(* (src/acia.c), the bus VIA (src/src/via.c), the LCD-driving VIA          *)
(* (src/api65/devices/via_6522.c) and the TIA (src/src/tia.c).             *)
(*                                                                         *)
(* Every C struct is one record-valued variable whose fields keep the C    *)
(* names.  A C function that mutates state is an operator from a machine   *)
(* (or device) record to the new record; a function that also returns a    *)
(* value yields [m |-> new state, ret |-> value].  The actions at the end  *)
(* of each section apply one whole call and log it in `obs`.               *)
(***************************************************************************)
EXTENDS Integers, Sequences, FiniteSets, TLC

VARIABLES
    cpu,      \* cpu6502_t                      (src/cpu.h)
    bus,      \* bus_t: attached devices, RAM size (src/bus.h, src/src/bus.c)
    memory,   \* memory_t.data, sparse: absent address = 0 (src/memory.c)
    acia,     \* Acia6550                       (src/src/acia.h)
    via,      \* VIA6522                        (src/src/via.h)
    tia,      \* TIA                            (src/tia.h)
    via6522,  \* struct via_6522 or struct ben_eater_io (src/api65/devices)
    out,      \* the bytes written to stdout by fputc/putchar, in order
    host,     \* the host program's loop: which main(), its counters
    obs       \* observer: the last call, its arguments and return value,
              \* and the call counts the properties are stated over

vars == <<cpu, bus, memory, acia, via, tia, via6522, out, host, obs>>

-----------------------------------------------------------------------------
(* Fixed-width arithmetic.                                                 *)

Byte == 0..255

RECURSIVE BitAndN(_, _, _)
BitAndN(a, b, n) ==
    IF n = 0 THEN 0
    ELSE (a % 2) * (b % 2) + 2 * BitAndN(a \div 2, b \div 2, n - 1)

RECURSIVE BitOrN(_, _, _)
BitOrN(a, b, n) ==
    IF n = 0 THEN 0
    ELSE (IF (a % 2) + (b % 2) > 0 THEN 1 ELSE 0)
         + 2 * BitOrN(a \div 2, b \div 2, n - 1)

\* a & b, a | b on operands below 2^16
BitAnd(a, b) == BitAndN(a, b, 16)
BitOr(a, b)  == BitOrN(a, b, 16)
\* a ^ b
BitXor(a, b) == a + b - 2 * BitAnd(a, b)
\* (uint8_t) ~a
BitNot8(a)   == 255 - (a % 256)
\* (v & mask) != 0
Test(v, mask) == BitAnd(v, mask) # 0
U8(v)  == v % 256
U16(v) == v % 65536

\* In applied to a value that is computed once, for a call whose result is
\* used more than once
Let(value, In(_)) == In(value)

-----------------------------------------------------------------------------
(* ACIA 6550/6551 -- src/acia.c, src/src/acia.h                            *)

ACIA_START_ADDRESS == 53248     \* 0xD000
ACIA_END_ADDRESS   == 53263     \* 0xD00F

ACIA_REG_STATUS  == 0
ACIA_REG_DATA_TX == 1
ACIA_REG_DATA_RX == 2
ACIA_REG_CONTROL == 3

ACIA_STATUS_TX_READY == 1
ACIA_STATUS_RX_READY == 2
ACIA_STATUS_OVERRUN  == 4

ACIA_CONTROL_ENABLE_TX == 1
ACIA_CONTROL_ENABLE_RX == 2

ACIA_TX_BUFFER_SIZE == 256
ACIA_RX_BUFFER_SIZE == 256

\* acia_init: calloc, then the explicit field initialisation
acia_init ==
    [ tx_buffer   |-> [i \in 0..(ACIA_TX_BUFFER_SIZE - 1) |-> 0],
      tx_head     |-> 0,
      tx_tail     |-> 0,
      tx_ready    |-> TRUE,
      rx_buffer   |-> [i \in 0..(ACIA_RX_BUFFER_SIZE - 1) |-> 0],
      rx_head     |-> 0,
      rx_tail     |-> 0,
      rx_ready    |-> FALSE,
      control_reg |-> 0,
      status_reg  |-> ACIA_STATUS_TX_READY ]

\* acia_reset: both rings cleared, registers back to their defaults
acia_reset(a) ==
    [ tx_buffer   |-> [i \in 0..(ACIA_TX_BUFFER_SIZE - 1) |-> 0],
      tx_head     |-> 0,
      tx_tail     |-> 0,
      tx_ready    |-> TRUE,
      rx_buffer   |-> [i \in 0..(ACIA_RX_BUFFER_SIZE - 1) |-> 0],
      rx_head     |-> 0,
      rx_tail     |-> 0,
      rx_ready    |-> FALSE,
      control_reg |-> 0,
      status_reg  |-> ACIA_STATUS_TX_READY ]

\* case ACIA_REG_STATUS of acia_read: the byte is recomputed from the two
\* ready flags; status_reg itself is not consulted
acia_read_status(a) ==
    (IF a.tx_ready THEN ACIA_STATUS_TX_READY ELSE 0)
    + (IF a.rx_ready THEN ACIA_STATUS_RX_READY ELSE 0)

\* A faulty data_rx read that leaves rx_ready raised when it empties the ring.
acia_read_data_rx_keeps_ready(a) ==
    IF a.rx_ready
    THEN [ m   |-> [a EXCEPT !.rx_tail = (a.rx_tail + 1) % ACIA_RX_BUFFER_SIZE],
           ret |-> a.rx_buffer[a.rx_tail] ]
    ELSE [m |-> a, ret |-> 0]

\* A faulty data_rx read that returns the newest byte of the ring instead
\* of the oldest.
acia_read_data_rx_newest(a) ==
    IF a.rx_ready
    THEN LET data == a.rx_buffer[(a.rx_head + ACIA_RX_BUFFER_SIZE - 1)
                                     % ACIA_RX_BUFFER_SIZE]
             tail == (a.rx_tail + 1) % ACIA_RX_BUFFER_SIZE
         IN  [ m   |-> IF tail = a.rx_head
                       THEN [a EXCEPT !.rx_tail = tail,
                                      !.rx_ready = FALSE,
                                      !.status_reg =
                                          BitAnd(@, BitNot8(ACIA_STATUS_RX_READY))]
                       ELSE [a EXCEPT !.rx_tail = tail],
               ret |-> data ]
    ELSE [m |-> a, ret |-> 0]

\* case ACIA_REG_DATA_RX of acia_read
acia_read_data_rx(a) ==
    IF a.rx_ready
    THEN LET data == a.rx_buffer[a.rx_tail]
             tail == (a.rx_tail + 1) % ACIA_RX_BUFFER_SIZE
         IN  [ m   |-> IF tail = a.rx_head
                       THEN [a EXCEPT !.rx_tail = tail,
                                      !.rx_ready = FALSE,
                                      !.status_reg =
                                          BitAnd(@, BitNot8(ACIA_STATUS_RX_READY))]
                       ELSE [a EXCEPT !.rx_tail = tail],
               ret |-> data ]
    ELSE [m |-> a, ret |-> 0]

\* acia_read: offset = (uint16_t)(address - ACIA_START_ADDRESS)
acia_read(a, address) ==
    LET offset == U16(address - ACIA_START_ADDRESS + 65536)
    IN  CASE offset = ACIA_REG_STATUS  -> [m |-> a, ret |-> acia_read_status(a)]
          [] offset = ACIA_REG_DATA_RX -> acia_read_data_rx(a)
          [] offset = ACIA_REG_CONTROL -> [m |-> a, ret |-> a.control_reg]
          [] OTHER                     -> [m |-> a, ret |-> 0]

\* A faulty data_tx write that enqueues whether or not ENABLE_TX is set.
acia_write_data_tx_always(a, data) ==
    LET next_head == (a.tx_head + 1) % ACIA_TX_BUFFER_SIZE
    IN  IF next_head # a.tx_tail
        THEN [a EXCEPT !.tx_buffer[a.tx_head] = data,
                       !.tx_head = next_head,
                       !.tx_ready = FALSE,
                       !.status_reg = BitAnd(@, BitNot8(ACIA_STATUS_TX_READY))]
        ELSE [a EXCEPT !.status_reg = BitOr(@, ACIA_STATUS_OVERRUN)]

\* case ACIA_REG_DATA_TX of acia_write
acia_write_data_tx(a, data) ==
    IF ~Test(a.control_reg, ACIA_CONTROL_ENABLE_TX)
    THEN a
    ELSE LET next_head == (a.tx_head + 1) % ACIA_TX_BUFFER_SIZE
         IN  IF next_head # a.tx_tail
             THEN [a EXCEPT !.tx_buffer[a.tx_head] = data,
                            !.tx_head = next_head,
                            !.tx_ready = FALSE,
                            !.status_reg =
                                BitAnd(@, BitNot8(ACIA_STATUS_TX_READY))]
             ELSE [a EXCEPT !.status_reg = BitOr(@, ACIA_STATUS_OVERRUN)]

\* case ACIA_REG_CONTROL of acia_write: the transmitter half
acia_control_tx(a) ==
    IF Test(a.control_reg, ACIA_CONTROL_ENABLE_TX)
    THEN LET ready == (a.tx_head = a.tx_tail)
         IN  [a EXCEPT !.tx_ready = ready,
                       !.status_reg =
                           IF ready THEN BitOr(@, ACIA_STATUS_TX_READY) ELSE @]
    ELSE [a EXCEPT !.tx_ready = FALSE,
                   !.status_reg = BitAnd(@, BitNot8(ACIA_STATUS_TX_READY))]

\* case ACIA_REG_CONTROL of acia_write: the receiver half
acia_control_rx(a) ==
    IF Test(a.control_reg, ACIA_CONTROL_ENABLE_RX)
    THEN LET ready == (a.rx_head # a.rx_tail)
         IN  [a EXCEPT !.rx_ready = ready,
                       !.status_reg =
                           IF ready THEN BitOr(@, ACIA_STATUS_RX_READY) ELSE @]
    ELSE [a EXCEPT !.rx_ready = FALSE,
                   !.status_reg = BitAnd(@, BitNot8(ACIA_STATUS_RX_READY))]

acia_write_control(a, data) ==
    acia_control_rx(acia_control_tx([a EXCEPT !.control_reg = data]))

acia_write(a, address, data) ==
    LET offset == U16(address - ACIA_START_ADDRESS + 65536)
    IN  CASE offset = ACIA_REG_DATA_TX -> acia_write_data_tx(a, data)
          [] offset = ACIA_REG_CONTROL -> acia_write_control(a, data)
          [] OTHER                     -> a

\* A faulty loop body that never raises tx_ready again.
acia_tx_body_stays_busy(s) ==
    [ a   |-> [s.a EXCEPT !.tx_tail = (s.a.tx_tail + 1) % ACIA_TX_BUFFER_SIZE],
      out |-> Append(s.out, s.a.tx_buffer[s.a.tx_tail]) ]

\* One pass through the body of the while loop of acia_process_tx, taken
\* when tx_tail != tx_head; s = [a |-> device, out |-> stdout].  The pass
\* that empties the ring raises tx_ready and breaks.
acia_tx_body(s) ==
    LET data == s.a.tx_buffer[s.a.tx_tail]
        tail == (s.a.tx_tail + 1) % ACIA_TX_BUFFER_SIZE
    IN  IF tail = s.a.tx_head
        THEN [ a   |-> [s.a EXCEPT !.tx_tail = tail,
                                   !.tx_ready = TRUE,
                                   !.status_reg = BitOr(@, ACIA_STATUS_TX_READY)],
               out |-> Append(s.out, data) ]
        ELSE [ a   |-> [s.a EXCEPT !.tx_tail = tail],
               out |-> Append(s.out, data) ]

\* The while loop: the body is repeated while tx_tail != tx_head.  The ring
\* holds fewer than ACIA_TX_BUFFER_SIZE bytes, so n = ACIA_TX_BUFFER_SIZE
\* passes always suffice; the passes are split in halves to keep the
\* evaluation shallow.
RECURSIVE acia_tx_loop(_, _)
acia_tx_loop(s, n) ==
    IF s.a.tx_tail = s.a.tx_head THEN s
    ELSE IF n = 1 THEN acia_tx_body(s)
    ELSE acia_tx_loop(acia_tx_loop(s, n \div 2), n - (n \div 2))

\* acia_process_tx: nothing when the transmitter is off or already ready
acia_process_tx(a, o) ==
    IF ~Test(a.control_reg, ACIA_CONTROL_ENABLE_TX) \/ a.tx_ready
    THEN [a |-> a, out |-> o]
    ELSE acia_tx_loop([a |-> a, out |-> o], ACIA_TX_BUFFER_SIZE)

\* A faulty acia_provide_input that stores every byte, full ring or not.
RECURSIVE acia_provide_input_overwrites(_, _)
acia_provide_input_overwrites(a, data) ==
    IF data = <<>>
    THEN a
    ELSE acia_provide_input_overwrites(
             [a EXCEPT !.rx_buffer[a.rx_head] = Head(data),
                       !.rx_head = (a.rx_head + 1) % ACIA_RX_BUFFER_SIZE,
                       !.rx_ready = TRUE,
                       !.status_reg = BitOr(@, ACIA_STATUS_RX_READY)],
             Tail(data))

\* acia_provide_input; data is the C string as a sequence of non-zero bytes
RECURSIVE acia_provide_input(_, _)
acia_provide_input(a, data) ==
    IF data = <<>>
    THEN a
    ELSE LET next_head == (a.rx_head + 1) % ACIA_RX_BUFFER_SIZE
         IN  IF next_head = a.rx_tail
             THEN [a EXCEPT !.status_reg = BitOr(@, ACIA_STATUS_OVERRUN)]
             ELSE acia_provide_input(
                      [a EXCEPT !.rx_buffer[a.rx_head] = Head(data),
                                !.rx_head = next_head,
                                !.rx_ready = TRUE,
                                !.status_reg = BitOr(@, ACIA_STATUS_RX_READY)],
                      Tail(data))

-----------------------------------------------------------------------------
(* TIA -- src/src/tia.c, src/tia.h                                         *)

TIA_CYCLES_PER_SCANLINE == 228
TIA_SCANLINES_PER_FRAME == 262
TIA_END_ADDRESS   == 63       \* 0x003F
TIA_REG_COUNT     == 64
TIA_SCREEN_WIDTH  == 160
TIA_SCREEN_HEIGHT == 192
CTRLPF_REFLECT_BIT == 1
CTRLPF_SCORE_BIT   == 2

TIA_REG_VSYNC  == 0
TIA_REG_VBLANK == 1
TIA_REG_RSYNC  == 3
TIA_REG_COLUP0 == 6
TIA_REG_COLUP1 == 7
TIA_REG_COLUPF == 8
TIA_REG_COLUBK == 9
TIA_REG_CTRLPF == 10
TIA_REG_PF0    == 13
TIA_REG_PF1    == 14
TIA_REG_PF2    == 15
TIA_REG_RESP0  == 16
TIA_REG_RESP1  == 17
TIA_REG_AUDC0  == 23
TIA_REG_AUDC1  == 24
TIA_REG_AUDF0  == 25
TIA_REG_AUDF1  == 26
TIA_REG_AUDV0  == 27
TIA_REG_AUDV1  == 28
TIA_REG_GRP0   == 29
TIA_REG_GRP1   == 30
TIA_REG_HMP0   == 36
TIA_REG_HMP1   == 37
TIA_REG_HMOVE  == 45
TIA_REG_CXCLR  == 47

\* (v & (1 << shift)) != 0
BitSet(v, shift) == (v \div (2 ^ shift)) % 2 = 1

\* tia_init: calloc, then the explicit assignments.  The framebuffer is
\* write-only for the TIA; the model keeps its last store <<y, x, index>>,
\* index being the entry of the colour table that was stored.
tia_init ==
    [ registers   |-> [i \in 0..(TIA_REG_COUNT - 1) |-> 0],
      framebuffer |-> << >>,
      color_clock |-> 0,
      scanline    |-> 0,
      vsync       |-> FALSE,
      vblank      |-> FALSE,
      frame_count |-> 0,
      collisions  |-> [p0_p1 |-> FALSE, p0_pf |-> FALSE, p1_pf |-> FALSE],
      p0_x |-> 0, p1_x |-> 0, grp0 |-> 0, grp1 |-> 0,
      pf0 |-> 0, pf1 |-> 0, pf2 |-> 0, ctrlpf |-> 0,
      colup0 |-> 0, colup1 |-> 0, colupf |-> 0, colubk |-> 0,
      audio0 |-> [AUDC |-> 0, AUDF |-> 0, AUDV |-> 0],
      audio1 |-> [AUDC |-> 0, AUDF |-> 0, AUDV |-> 0],
      frame_done  |-> FALSE ]

\* tia_read: the register the mirrored address selects
tia_read(t, address) == t.registers[address % TIA_REG_COUNT]

\* A faulty get_playfield_pixel that repeats the playfield in the right half.
get_playfield_pixel_repeat(t, x) ==
    LET index == (x \div 4) % 20
    IN  IF index < 4 THEN BitSet(t.pf0, 7 - index)
        ELSE IF index < 12 THEN BitSet(t.pf1, 11 - index)
        ELSE BitSet(t.pf2, 19 - index)

\* get_playfield_pixel: index = x / 4 clamped to 19; the reflect branch
\* (index >= 20) is never taken after the clamp
get_playfield_pixel(t, x) ==
    LET index == IF x \div 4 > 19 THEN 19 ELSE x \div 4
    IN  IF index < 4 THEN BitSet(t.pf0, 7 - index)
        ELSE IF index < 12 THEN BitSet(t.pf1, 11 - index)
        ELSE BitSet(t.pf2, 19 - index)

\* get_player_pixel
get_player_pixel(grp, sprite_x, x) ==
    LET rel == x - sprite_x
    IN  IF rel < 0 \/ rel > 7 THEN FALSE ELSE BitSet(grp, 7 - rel)

\* A faulty tia_check_collisions whose latches follow the current pixel.
tia_check_collisions_unlatched(t, p0, p1, pf) ==
    [t EXCEPT !.collisions =
        [ p0_p1 |-> p0 /\ p1, p0_pf |-> p0 /\ pf, p1_pf |-> p1 /\ pf ]]

\* tia_check_collisions: latches are only ever set
tia_check_collisions(t, p0, p1, pf) ==
    [t EXCEPT !.collisions =
        [ p0_p1 |-> @.p0_p1 \/ (p0 /\ p1),
          p0_pf |-> @.p0_pf \/ (p0 /\ pf),
          p1_pf |-> @.p1_pf \/ (p1 /\ pf) ]]

\* tia_color_to_rgba: the table index, color_code & 0x7F
tia_color_to_rgba(color_code) == color_code % 128

\* A faulty tia_render_pixel in which player 0 is drawn over player 1.
tia_render_pixel_p0_on_top(t) ==
    LET x  == t.color_clock
        y  == t.scanline
        pf == get_playfield_pixel(t, x)
        p0 == get_player_pixel(t.grp0, t.p0_x, x)
        p1 == get_player_pixel(t.grp1, t.p1_x, x)
        score_mode == Test(t.ctrlpf, CTRLPF_SCORE_BIT)
        c_pf == IF pf
                THEN IF ~score_mode THEN t.colupf
                     ELSE IF x < 80 THEN t.colup0 ELSE t.colup1
                ELSE t.colubk
        c_p1 == IF p1 THEN t.colup1 ELSE c_pf
        color_code == IF p0 THEN t.colup0 ELSE c_p1
    IN  IF t.vsync \/ t.vblank \/ y >= TIA_SCREEN_HEIGHT \/ x >= TIA_SCREEN_WIDTH
        THEN t
        ELSE tia_check_collisions(
                 [t EXCEPT !.framebuffer = <<y, x, tia_color_to_rgba(color_code)>>],
                 p0, p1, pf)

\* tia_render_pixel
tia_render_pixel(t) ==
    LET x  == t.color_clock
        y  == t.scanline
        pf == get_playfield_pixel(t, x)
        p0 == get_player_pixel(t.grp0, t.p0_x, x)
        p1 == get_player_pixel(t.grp1, t.p1_x, x)
        score_mode == Test(t.ctrlpf, CTRLPF_SCORE_BIT)
        c_pf == IF pf
                THEN IF ~score_mode THEN t.colupf
                     ELSE IF x < 80 THEN t.colup0 ELSE t.colup1
                ELSE t.colubk
        c_p0 == IF p0 THEN t.colup0 ELSE c_pf
        color_code == IF p1 THEN t.colup1 ELSE c_p0
    IN  IF t.vsync \/ t.vblank \/ y >= TIA_SCREEN_HEIGHT \/ x >= TIA_SCREEN_WIDTH
        THEN t
        ELSE tia_check_collisions(
                 [t EXCEPT !.framebuffer = <<y, x, tia_color_to_rgba(color_code)>>],
                 p0, p1, pf)

\* A faulty tia_cycle that wraps the colour clock one tick late.
tia_cycle_late_wrap(t) ==
    LET r  == tia_render_pixel(t)
        cc == r.color_clock + 1
    IN  IF cc > TIA_CYCLES_PER_SCANLINE
        THEN IF r.scanline + 1 >= TIA_SCANLINES_PER_FRAME
             THEN [r EXCEPT !.color_clock = 0, !.scanline = 0,
                            !.frame_done = TRUE, !.frame_count = @ + 1]
             ELSE [r EXCEPT !.color_clock = 0, !.scanline = @ + 1]
        ELSE [r EXCEPT !.color_clock = cc]

\* tia_cycle: render, then advance the beam by one colour clock
tia_cycle(t) ==
    LET r  == tia_render_pixel(t)
        cc == r.color_clock + 1
    IN  IF cc >= TIA_CYCLES_PER_SCANLINE
        THEN IF r.scanline + 1 >= TIA_SCANLINES_PER_FRAME
             THEN [r EXCEPT !.color_clock = 0, !.scanline = 0,
                            !.frame_done = TRUE, !.frame_count = @ + 1]
             ELSE [r EXCEPT !.color_clock = 0, !.scanline = @ + 1]
        ELSE [r EXCEPT !.color_clock = cc]

\* (int8_t)(v << 4) >> 4: the low nibble of v, sign-extended
SignExtend4(v) == IF v % 16 >= 8 THEN (v % 16) - 16 ELSE v % 16

\* A faulty position update without the correction of a negative sum: the
\* C remainder stays negative and is cast to uint16_t.
hmove_position_uncorrected(x, shift) ==
    LET new_x == x + shift
    IN  IF new_x < 0 THEN 65536 + new_x ELSE new_x % TIA_SCREEN_WIDTH

\* One object of hmove_objects: the position shifted and wrapped to the
\* visible width
hmove_position(x, shift) ==
    LET new_x == x + shift
    IN  (IF new_x < 0 THEN new_x + TIA_SCREEN_WIDTH ELSE new_x) % TIA_SCREEN_WIDTH

\* hmove_objects
hmove_objects(t) ==
    [t EXCEPT !.p0_x = hmove_position(@, SignExtend4(t.registers[TIA_REG_HMP0])),
              !.p1_x = hmove_position(@, SignExtend4(t.registers[TIA_REG_HMP1]))]

\* A faulty side-effect switch in which a VSYNC write also acknowledges the
\* finished frame.
tia_side_effects_ack_frame(t, reg, data) ==
    CASE reg = TIA_REG_VSYNC -> [t EXCEPT !.vsync = Test(data, 2),
                                          !.frame_done = FALSE]
      [] reg = TIA_REG_RSYNC -> [t EXCEPT !.color_clock = 0]
      [] reg = TIA_REG_RESP0 -> [t EXCEPT !.p0_x = t.color_clock]
      [] reg = TIA_REG_RESP1 -> [t EXCEPT !.p1_x = t.color_clock]
      [] reg = TIA_REG_HMOVE -> hmove_objects(t)
      [] OTHER -> t

\* tia_apply_write_side_effects
tia_apply_write_side_effects(t, reg, data) ==
    CASE reg = TIA_REG_VSYNC  -> [t EXCEPT !.vsync  = Test(data, 2)]
      [] reg = TIA_REG_VBLANK -> [t EXCEPT !.vblank = Test(data, 128)]
      [] reg = TIA_REG_RSYNC  -> [t EXCEPT !.color_clock = 0]
      [] reg = TIA_REG_COLUP0 -> [t EXCEPT !.colup0 = data]
      [] reg = TIA_REG_COLUP1 -> [t EXCEPT !.colup1 = data]
      [] reg = TIA_REG_COLUPF -> [t EXCEPT !.colupf = data]
      [] reg = TIA_REG_COLUBK -> [t EXCEPT !.colubk = data]
      [] reg = TIA_REG_CTRLPF -> [t EXCEPT !.ctrlpf = data]
      [] reg = TIA_REG_PF0    -> [t EXCEPT !.pf0 = data]
      [] reg = TIA_REG_PF1    -> [t EXCEPT !.pf1 = data]
      [] reg = TIA_REG_PF2    -> [t EXCEPT !.pf2 = data]
      [] reg = TIA_REG_RESP0  -> [t EXCEPT !.p0_x = t.color_clock]
      [] reg = TIA_REG_RESP1  -> [t EXCEPT !.p1_x = t.color_clock]
      [] reg = TIA_REG_GRP0   -> [t EXCEPT !.grp0 = data]
      [] reg = TIA_REG_GRP1   -> [t EXCEPT !.grp1 = data]
      [] reg = TIA_REG_HMOVE  -> hmove_objects(t)
      [] reg = TIA_REG_AUDC0  -> [t EXCEPT !.audio0.AUDC = data]
      [] reg = TIA_REG_AUDF0  -> [t EXCEPT !.audio0.AUDF = data]
      [] reg = TIA_REG_AUDV0  -> [t EXCEPT !.audio0.AUDV = data]
      [] reg = TIA_REG_AUDC1  -> [t EXCEPT !.audio1.AUDC = data]
      [] reg = TIA_REG_AUDF1  -> [t EXCEPT !.audio1.AUDF = data]
      [] reg = TIA_REG_AUDV1  -> [t EXCEPT !.audio1.AUDV = data]
      [] OTHER -> t

\* tia_write: store in the mirrored register, then the side effects
tia_write(t, address, data) ==
    LET offset == address % TIA_REG_COUNT
    IN  tia_apply_write_side_effects(
            [t EXCEPT !.registers[offset] = data], offset, data)

-----------------------------------------------------------------------------
(* LCD-driving VIA 6522 -- src/api65/devices/via_6522.c, with the calls it *)
(* makes into src/api65/devices/lcd_16x2.c.                                *)
(*                                                                         *)
(* include/devices/via_6522.h is not part of the source tree.  The port    *)
(* wiring below (E, R/W, RS on port A; ORB at offset 0, ORA at offset 1)   *)
(* is the one src/api65/devices/ben_eater_io.c defines for the same board, *)
(* and the register offsets follow the order of the struct fields and of   *)
(* the switch cases of via_6522_write_byte.                                *)

VIA_E_BIT  == 128      \* 0x80
VIA_RW_BIT == 64       \* 0x40
VIA_RS_BIT == 32       \* 0x20
VIA_ORB    == 0
VIA_ORA    == 1

\* The sixteen registers in the order of their offsets
via_6522_registers ==
    << "orb", "ora", "ddrb", "ddra", "t1cl", "t1ch", "t1ll", "t1lh",
       "t2cl", "t2ch", "sr", "acr", "pcr", "ifr", "ier", "oranh" >>

\* lcd_16x2_create; `calls` is the history of lcd_16x2_write_command and
\* lcd_16x2_write_data calls received, as <<function, byte>>
lcd_16x2_create == [ initialized |-> FALSE, calls |-> << >> ]

\* via_6522_create: memset 0, a fresh LCD
via_6522_create ==
    [ orb |-> 0, ora |-> 0, ddrb |-> 0, ddra |-> 0,
      t1cl |-> 0, t1ch |-> 0, t1ll |-> 0, t1lh |-> 0, t2cl |-> 0, t2ch |-> 0,
      sr |-> 0, acr |-> 0, pcr |-> 0, ifr |-> 0, ier |-> 0, oranh |-> 0,
      prev_orb |-> 0, prev_ora |-> 0,
      lcd |-> lcd_16x2_create,
      initialized |-> FALSE,
      cycle_count |-> 0 ]

\* The register and edge-detection fields as via_6522_init and
\* via_6522_reset leave them
via_6522_clear_registers(v) ==
    [v EXCEPT !.orb = 0, !.ora = 0, !.ddrb = 0, !.ddra = 0,
              !.t1cl = 0, !.t1ch = 0, !.t1ll = 0, !.t1lh = 0,
              !.t2cl = 0, !.t2ch = 0, !.sr = 0, !.acr = 0, !.pcr = 0,
              !.ifr = 0, !.ier = 0, !.oranh = 0,
              !.prev_orb = 0, !.prev_ora = 0]

\* via_6522_init: registers cleared, lcd_16x2_init (which cannot fail on a
\* created LCD), initialized = true
via_6522_init(v) ==
    [via_6522_clear_registers(v) EXCEPT !.lcd.initialized = TRUE,
                                        !.initialized = TRUE]

\* via_6522_reset: registers cleared, lcd_16x2_reset
via_6522_reset(v) == via_6522_clear_registers(v)

\* A faulty protocol step that refreshes prev_ora only when it saw an edge.
via_6522_process_lcd_protocol_stale(v) ==
    IF Test(v.prev_ora, VIA_E_BIT) /\ ~Test(v.ora, VIA_E_BIT)
    THEN [v EXCEPT !.prev_ora = v.ora,
                   !.lcd.calls = IF Test(v.ora, VIA_RW_BIT) THEN @
                                 ELSE Append(@, <<"write_command", v.orb>>)]
    ELSE v

\* via_6522_process_lcd_protocol: on a falling edge of E between prev_ora
\* and ora with R/W low, the LCD is handed ORB as data (RS high) or as a
\* command (RS low); prev_ora then follows ora
via_6522_process_lcd_protocol(v) ==
    LET e_falling_edge == Test(v.prev_ora, VIA_E_BIT) /\ ~Test(v.ora, VIA_E_BIT)
        rw_signal == Test(v.ora, VIA_RW_BIT)
        rs_signal == Test(v.ora, VIA_RS_BIT)
    IN  [v EXCEPT
           !.lcd.calls =
               IF e_falling_edge /\ ~rw_signal
               THEN IF rs_signal THEN Append(@, <<"write_data", v.orb>>)
                                 ELSE Append(@, <<"write_command", v.orb>>)
               ELSE @,
           !.prev_ora = v.ora]

\* via_6522_write_byte: ignored until initialized; the register selected by
\* address & 0x0F is stored, then the LCD protocol runs
via_6522_write_byte(v, address, value) ==
    IF ~v.initialized THEN v
    ELSE via_6522_process_lcd_protocol(
             [v EXCEPT ![via_6522_registers[(address % 16) + 1]] = value])

\* via_6522_read_byte: 0xFF until initialized
via_6522_read_byte(v, address) ==
    IF ~v.initialized THEN 255
    ELSE v[via_6522_registers[(address % 16) + 1]]

\* via_6522_cycle; cycle_count is a uint32_t, which no explored run wraps
via_6522_cycle(v) ==
    via_6522_process_lcd_protocol([v EXCEPT !.cycle_count = @ + 1])

-----------------------------------------------------------------------------
(* Ben Eater I/O ports -- src/api65/devices/ben_eater_io.c: the second     *)
(* driver of the LCD over ports A and B.  E_BIT, RW_BIT and RS_BIT of the  *)
(* file are VIA_E_BIT, VIA_RW_BIT and VIA_RS_BIT above.                    *)

PORTB_ADDR == 24576     \* 0x6000
PORTA_ADDR == 24577     \* 0x6001
DDRB_ADDR  == 24578     \* 0x6002
DDRA_ADDR  == 24579     \* 0x6003

\* ben_eater_io_create: memset 0, an LCD from lcd_16x2_create and
\* lcd_16x2_init, initialized = true
ben_eater_io_create ==
    [ portb |-> 0, porta |-> 0, ddrb |-> 0, ddra |-> 0,
      prev_portb |-> 0, prev_porta |-> 0,
      lcd |-> [lcd_16x2_create EXCEPT !.initialized = TRUE],
      initialized |-> TRUE,
      cycle_count |-> 0,
      latched_data |-> 0 ]

\* ben_eater_io_init (ben_eater_io_reset calls it): ports, snapshots, cycle
\* count and latch cleared, lcd_16x2_reset
ben_eater_io_init(io) ==
    [io EXCEPT !.portb = 0, !.porta = 0, !.ddrb = 0, !.ddra = 0,
               !.prev_portb = 0, !.prev_porta = 0,
               !.cycle_count = 0, !.latched_data = 0]

\* ben_eater_io_process_lcd_command.  Nothing happens unless a port differs
\* from its snapshot.  A rising edge of E latches port B; a falling edge
\* with R/W low hands the LATCHED byte to the LCD, and with R/W high puts
\* on port B zero (RS high) or the LCD's status byte (RS low), which is the
\* parameter status.  Both snapshots then follow the ports.
ben_eater_io_process_lcd_command(io, status) ==
    IF io.portb = io.prev_portb /\ io.porta = io.prev_porta THEN io
    ELSE
    LET e_signal       == Test(io.porta, VIA_E_BIT)
        rw_signal      == Test(io.porta, VIA_RW_BIT)
        rs_signal      == Test(io.porta, VIA_RS_BIT)
        prev_e_signal  == Test(io.prev_porta, VIA_E_BIT)
        e_falling_edge == prev_e_signal /\ ~e_signal
        e_rising_edge  == ~prev_e_signal /\ e_signal
        latched_data   == IF e_rising_edge THEN io.portb ELSE io.latched_data
        portb          == IF e_falling_edge /\ rw_signal
                          THEN (IF rs_signal THEN 0 ELSE status)
                          ELSE io.portb
    IN  [io EXCEPT
           !.latched_data = latched_data,
           !.portb = portb,
           !.lcd.calls =
               IF e_falling_edge /\ ~rw_signal
               THEN IF rs_signal THEN Append(@, <<"write_data", latched_data>>)
                                 ELSE Append(@, <<"write_command", latched_data>>)
               ELSE @,
           !.prev_portb = portb,
           !.prev_porta = io.porta]

\* ben_eater_io_write_byte: the port or direction register at the full
\* address is stored, then the LCD protocol runs
ben_eater_io_write_byte(io, address, value, status) ==
    ben_eater_io_process_lcd_command(
        CASE address = PORTB_ADDR -> [io EXCEPT !.portb = value]
          [] address = PORTA_ADDR -> [io EXCEPT !.porta = value]
          [] address = DDRB_ADDR  -> [io EXCEPT !.ddrb = value]
          [] address = DDRA_ADDR  -> [io EXCEPT !.ddra = value]
          [] OTHER -> io,
        status)

\* ben_eater_io_cycle; cycle_count is a uint32_t, which no explored run wraps
ben_eater_io_cycle(io, status) ==
    ben_eater_io_process_lcd_command([io EXCEPT !.cycle_count = @ + 1], status)

-----------------------------------------------------------------------------
(* Bus VIA 6522 -- src/src/via.c, src/src/via.h                            *)

VIA_BASE_ADDRESS == 24576     \* 0x6000
VIA_END_ADDRESS  == 24591     \* 0x600F

VIA_REG_ORB  == 0
VIA_REG_ORA  == 1
VIA_REG_DDRB == 2
VIA_REG_DDRA == 3
VIA_REG_T1CL == 4
VIA_REG_T1CH == 5
VIA_REG_T2CL == 8
VIA_REG_T2CH == 9
VIA_REG_SR   == 10
VIA_REG_IFR  == 13
VIA_REG_IER  == 14

VIA_SERIAL_OUT_BIT == 128     \* PB7
VIA_SERIAL_IN_BIT  == 64      \* PB6
VIA_SERIAL_IN_BUF_SIZE == 256
VIA_SR_DISABLED == 0

\* via_init: calloc, then the explicit assignments
via_init ==
    [ reg |-> [i \in 0..15 |-> 0],
      t1c |-> 0, t1l |-> 0, t2c |-> 0, t2l |-> 0,
      ifr |-> 0, ier |-> 0,
      serial_in_buf  |-> [i \in 0..(VIA_SERIAL_IN_BUF_SIZE - 1) |-> 0],
      serial_in_head |-> 0,
      serial_in_tail |-> 0,
      shift_reg    |-> 0,
      shift_count  |-> 0,
      shift_active |-> FALSE,
      shift_mode   |-> VIA_SR_DISABLED,
      sr_irq_flag  |-> FALSE,
      sr_tx_ready  |-> TRUE,
      sr_rx_ready  |-> FALSE ]

\* via_read: reg = (address - VIA_BASE_ADDRESS) & 0x0F
via_read(v, address) ==
    LET reg == U16(address - VIA_BASE_ADDRESS + 65536) % 16
        pending == v.serial_in_head # v.serial_in_tail
    IN  CASE reg = VIA_REG_ORB ->
               [ m   |-> v,
                 ret |-> IF pending
                         THEN BitOr(v.reg[VIA_REG_ORB], VIA_SERIAL_IN_BIT)
                         ELSE BitAnd(v.reg[VIA_REG_ORB], BitNot8(VIA_SERIAL_IN_BIT)) ]
          [] reg = VIA_REG_ORA ->
               IF pending
               THEN [ m   |-> [v EXCEPT !.serial_in_tail =
                                            (@ + 1) % VIA_SERIAL_IN_BUF_SIZE],
                      ret |-> v.serial_in_buf[v.serial_in_tail] ]
               ELSE [ m |-> v, ret |-> v.reg[VIA_REG_ORA] ]
          [] reg = VIA_REG_SR ->
               IF v.sr_rx_ready
               THEN [ m   |-> [v EXCEPT !.sr_rx_ready = FALSE,
                                        !.ifr = BitAnd(@, BitNot8(16))],
                      ret |-> v.shift_reg ]
               ELSE [ m |-> v, ret |-> 0 ]
          [] reg = VIA_REG_IFR -> [ m |-> v, ret |-> v.ifr ]
          [] reg = VIA_REG_IER -> [ m |-> v, ret |-> BitOr(v.ier, 128) ]
          [] OTHER -> [ m |-> v, ret |-> v.reg[reg] ]

\* A faulty IER write that sets the selected bits whatever bit 7 says.
via_write_ier_always_sets(ier, value) == BitOr(ier, BitAnd(value, 127))

\* The IER arm of via_write: bit 7 of the value selects set or clear of the
\* bits in its low seven bits
via_write_ier(ier, value) ==
    IF Test(value, 128)
    THEN BitOr(ier, BitAnd(value, 127))
    ELSE BitAnd(ier, BitNot8(BitAnd(value, 127)))

\* via_serial_rx_byte
via_serial_rx_byte(v, byte) ==
    [v EXCEPT !.shift_reg = byte, !.sr_rx_ready = TRUE, !.ifr = BitOr(@, 16)]

\* via_write; s = [m |-> the VIA, out |-> stdout], for the putchar of the
\* serial-out strobe
via_write(s, address, value) ==
    LET reg == U16(address - VIA_BASE_ADDRESS + 65536) % 16
        v   == s.m
    IN  CASE reg = VIA_REG_ORB ->
               [ m   |-> [v EXCEPT !.reg[VIA_REG_ORB] = value],
                 out |-> IF Test(value, VIA_SERIAL_OUT_BIT)
                         THEN Append(s.out, v.reg[VIA_REG_ORA])
                         ELSE s.out ]
          [] reg = VIA_REG_ORA ->
               [s EXCEPT !.m.reg[VIA_REG_ORA] = value]
          [] reg = VIA_REG_DDRB \/ reg = VIA_REG_DDRA ->
               [s EXCEPT !.m.reg[reg] = value]
          [] reg = VIA_REG_T1CL ->
               [s EXCEPT !.m.t1l = BitOr(BitAnd(@, 65280), value)]
          [] reg = VIA_REG_T1CH ->
               LET latch == BitOr(BitAnd(v.t1l, 255), value * 256)
               IN  [s EXCEPT !.m.t1l = latch, !.m.t1c = latch]
          [] reg = VIA_REG_T2CL ->
               [s EXCEPT !.m.t2l = BitOr(BitAnd(@, 65280), value)]
          [] reg = VIA_REG_T2CH ->
               LET latch == BitOr(BitAnd(v.t2l, 255), value * 256)
               IN  [s EXCEPT !.m.t2l = latch, !.m.t2c = latch]
          [] reg = VIA_REG_SR ->
               [s EXCEPT !.m.shift_reg = value,
                         !.m.shift_count = 8,
                         !.m.shift_active = TRUE,
                         !.m.sr_tx_ready = FALSE,
                         !.m.ifr = BitAnd(@, BitNot8(16))]
          [] reg = VIA_REG_IFR ->
               [s EXCEPT !.m.ifr = BitAnd(@, BitNot8(value))]
          [] reg = VIA_REG_IER ->
               [s EXCEPT !.m.ier = via_write_ier(@, value)]
          [] OTHER ->
               [s EXCEPT !.m.reg[reg] = value]

\* via_tick_serial; s = [m |-> the VIA, out |-> stdout].  The register is
\* shifted left before the count is tested, so the putchar of the last
\* shift prints what eight shifts have left of the byte.
via_tick_serial(s) ==
    IF ~s.m.shift_active THEN s
    ELSE LET shift_reg   == (s.m.shift_reg * 2) % 256
             shift_count == (s.m.shift_count + 255) % 256
         IN  IF shift_count = 0
             THEN [ m   |-> [s.m EXCEPT !.shift_reg = shift_reg,
                                        !.shift_count = shift_count,
                                        !.shift_active = FALSE,
                                        !.sr_tx_ready = TRUE,
                                        !.ifr = BitOr(@, 16)],
                    out |-> Append(s.out, shift_reg) ]
             ELSE [s EXCEPT !.m.shift_reg = shift_reg,
                            !.m.shift_count = shift_count]

\* A faulty via_tick_timer that raises the flag one tick early.
via_tick_timer_early(counter, ifr, flag) ==
    IF counter > 0
    THEN [ counter |-> counter - 1,
           ifr |-> IF counter - 1 <= 1 THEN BitOr(ifr, flag) ELSE ifr ]
    ELSE [ counter |-> counter, ifr |-> ifr ]

\* One timer of via_tick: a counter above 0 is decremented and sets its
\* IFR bit on reaching 0
via_tick_timer(counter, ifr, flag) ==
    IF counter > 0
    THEN [ counter |-> counter - 1,
           ifr |-> IF counter - 1 = 0 THEN BitOr(ifr, flag) ELSE ifr ]
    ELSE [ counter |-> counter, ifr |-> ifr ]

\* via_tick: timer 1 (IFR bit 6), timer 2 (IFR bit 5), then the shift
\* register
via_tick(s) ==
    LET t1 == via_tick_timer(s.m.t1c, s.m.ifr, 64)
        t2 == via_tick_timer(s.m.t2c, t1.ifr, 32)
    IN  via_tick_serial([s EXCEPT !.m.t1c = t1.counter,
                                  !.m.t2c = t2.counter,
                                  !.m.ifr = t2.ifr])

-----------------------------------------------------------------------------
(* Memory and bus -- src/memory.c, src/src/bus.c                           *)
(*                                                                         *)
(* memory_t is [size, data]; data lists only the non-zero bytes, every     *)
(* other address below size holding 0 as memory_init leaves it.  bus_t     *)
(* holds, for each device pointer, whether it is non-NULL.  A machine m    *)
(* gathers the bus, the memory, the devices, stdout and the CPU; `log` is  *)
(* the history of the bus accesses of the call in progress, <<"R" or "W",  *)
(* address, byte>>.                                                        *)

\* memory_init
memory_init(size) == [size |-> size, data |-> << >>]

\* memory_read
memory_read(mem, address) ==
    IF address >= mem.size THEN 0
    ELSE IF address \in DOMAIN mem.data THEN mem.data[address] ELSE 0

\* memory_write
memory_write(mem, address, value) ==
    IF address >= mem.size THEN mem
    ELSE [mem EXCEPT !.data =
             [a \in (IF value = 0 THEN DOMAIN @ \ {address}
                                  ELSE DOMAIN @ \cup {address}) |->
                 IF a = address THEN value ELSE @[a]]]

\* bus_load_program: fread copies the image into memory.data at
\* start_address, past every device; image is a sequence of bytes that fits
\* below memory.size
bus_load_program(mem, image, start_address) ==
    LET loaded == start_address .. (start_address + Len(image) - 1)
    IN  [mem EXCEPT !.data =
            [a \in (DOMAIN @ \ loaded)
                   \cup {b \in loaded : image[b - start_address + 1] # 0} |->
                IF a \in loaded THEN image[a - start_address + 1] ELSE @[a]]]

\* bus_load_program on a file that holds the bytes file.image, of which
\* fread delivers the first file.readable: the range check is against
\* 0x10000, not against memory.size, and fread stores at
\* &memory.data[start_address] whatever the size of the buffer; overrun is
\* the number of bytes stored past the end of memory.data
bus_load_program_from_file(mem, file, start_address) ==
    IF Len(file.image) > 65536 - start_address
    THEN [mem |-> mem, ret |-> -1, overrun |-> 0]
    ELSE [ mem |-> bus_load_program(mem, SubSeq(file.image, 1, file.readable),
                                    start_address),
           ret |-> IF file.readable = Len(file.image) THEN 0 ELSE -1,
           overrun |-> IF start_address + file.readable > mem.size
                       THEN start_address + file.readable
                            - (IF start_address > mem.size
                               THEN start_address ELSE mem.size)
                       ELSE 0 ]

\* bus_init: the ACIA and TIA pointers as given, a VIA from via_init (NULL
\* when its allocation fails)
bus_init(acia_attached, tia_attached, via_allocated) ==
    [ acia |-> acia_attached, tia |-> tia_attached, via |-> via_allocated,
      clock_disabled |-> TRUE ]

\* The if-chain of bus_read_memory: the first branch that matches
bus_read_target(m, address) ==
    IF m.bus.tia /\ address <= TIA_END_ADDRESS THEN "tia"
    ELSE IF m.bus.acia /\ address >= ACIA_START_ADDRESS
                       /\ address <= ACIA_END_ADDRESS THEN "acia"
    ELSE IF m.bus.via /\ address >= VIA_BASE_ADDRESS
                      /\ address <= VIA_END_ADDRESS THEN "via"
    ELSE IF address < m.memory.size THEN "ram"
    ELSE "none"

\* A faulty write chain that tries RAM before the VIA.
bus_write_target_ram_first(m, address) ==
    IF m.bus.tia /\ address <= TIA_END_ADDRESS THEN "tia"
    ELSE IF m.bus.acia /\ address >= ACIA_START_ADDRESS
                       /\ address <= ACIA_END_ADDRESS THEN "acia"
    ELSE IF address < m.memory.size THEN "ram"
    ELSE IF m.bus.via /\ address >= VIA_BASE_ADDRESS
                      /\ address <= VIA_END_ADDRESS THEN "via"
    ELSE "none"

\* The if-chain of bus_write_memory
bus_write_target(m, address) ==
    IF m.bus.tia /\ address <= TIA_END_ADDRESS THEN "tia"
    ELSE IF m.bus.acia /\ address >= ACIA_START_ADDRESS
                       /\ address <= ACIA_END_ADDRESS THEN "acia"
    ELSE IF m.bus.via /\ address >= VIA_BASE_ADDRESS
                      /\ address <= VIA_END_ADDRESS THEN "via"
    ELSE IF address < m.memory.size THEN "ram"
    ELSE "none"

\* A read that falls through to memory_read when nothing claims the address.
bus_read_memory_falls_to_ram(m, address) ==
    LET target == bus_read_target(m, address)
        r == CASE target = "tia"  -> [m |-> m, ret |-> tia_read(m.tia, address)]
               [] target = "acia" ->
                    LET d == acia_read(m.acia, address)
                    IN  [m |-> [m EXCEPT !.acia = d.m], ret |-> d.ret]
               [] target = "via"  ->
                    LET d == via_read(m.via, address)
                    IN  [m |-> [m EXCEPT !.via = d.m], ret |-> d.ret]
               [] OTHER -> [m |-> m, ret |-> memory_read(m.memory, address)]
    IN  [ m   |-> [r.m EXCEPT !.log = Append(@, <<"R", address, r.ret>>)],
          ret |-> r.ret ]

\* bus_read_memory
bus_read_memory(m, address) ==
    LET target == bus_read_target(m, address)
        r == CASE target = "tia"  -> [m |-> m, ret |-> tia_read(m.tia, address)]
               [] target = "acia" ->
                    LET d == acia_read(m.acia, address)
                    IN  [m |-> [m EXCEPT !.acia = d.m], ret |-> d.ret]
               [] target = "via"  ->
                    LET d == via_read(m.via, address)
                    IN  [m |-> [m EXCEPT !.via = d.m], ret |-> d.ret]
               [] target = "ram"  -> [m |-> m, ret |-> memory_read(m.memory, address)]
               [] OTHER           -> [m |-> m, ret |-> 255]
    IN  [ m   |-> [r.m EXCEPT !.log = Append(@, <<"R", address, r.ret>>)],
          ret |-> r.ret ]

\* bus_write_memory
bus_write_memory(m, address, value) ==
    LET target == bus_write_target(m, address)
        w == CASE target = "tia"  -> [m EXCEPT !.tia = tia_write(@, address, value)]
               [] target = "acia" -> [m EXCEPT !.acia = acia_write(@, address, value)]
               [] target = "via"  ->
                    LET d == via_write([m |-> m.via, out |-> m.out], address, value)
                    IN  [m EXCEPT !.via = d.m, !.out = d.out]
               [] target = "ram"  ->
                    [m EXCEPT !.memory = memory_write(@, address, value)]
               [] OTHER           -> m
    IN  [w EXCEPT !.log = Append(@, <<"W", address, value>>)]

-----------------------------------------------------------------------------
(* Devices at rest: the value of every variable a specification does not   *)
(* exercise.                                                               *)

NoDevice == [attached |-> FALSE]

-----------------------------------------------------------------------------
(* 6502 CPU -- src/src/cpu.c, src/cpu.h                                    *)
(*                                                                         *)
(* The global cpu6502_t is m.cpu; every function below takes the machine   *)
(* it runs on and yields the machine it leaves.  cpu->cycles is a double   *)
(* that only ever holds whole numbers.                                     *)

STACK_BASE   == 256       \* 0x0100
RESET_VECTOR == 65532     \* 0xFFFC
NMI_VECTOR   == 65530     \* 0xFFFA
IRQ_VECTOR   == 65534     \* 0xFFFE

\* push8
push8(m, value) ==
    [bus_write_memory(m, STACK_BASE + m.cpu.sp, value)
        EXCEPT !.cpu.sp = U8(@ - 1)]

\* A pull that does not wrap the stack pointer into page 1.
pull8_without_wrap(m) ==
    bus_read_memory([m EXCEPT !.cpu.sp = U8(@ + 1)],
                    STACK_BASE + m.cpu.sp + 1)

\* pull8
pull8(m) ==
    bus_read_memory([m EXCEPT !.cpu.sp = U8(@ + 1)],
                    STACK_BASE + U8(m.cpu.sp + 1))

\* push16: high byte first
push16(m, value) ==
    [bus_write_memory(
         bus_write_memory(m, STACK_BASE + m.cpu.sp, (value \div 256) % 256),
         STACK_BASE + ((m.cpu.sp - 1) % 256), value % 256)
        EXCEPT !.cpu.sp = U8(@ - 2)]

\* pull16: low byte first
pull16(m) ==
    LET sp == U8(m.cpu.sp + 2)
    IN  Let(bus_read_memory([m EXCEPT !.cpu.sp = sp],
                            STACK_BASE + ((sp - 1) % 256)), LAMBDA lo :
        Let(bus_read_memory(lo.m, STACK_BASE + (sp % 256)), LAMBDA hi :
            [m |-> hi.m, ret |-> hi.ret * 256 + lo.ret]))

\* read_word
read_word(m, address) ==
    Let(bus_read_memory(m, address), LAMBDA lo :
    Let(bus_read_memory(lo.m, U16(address + 1)), LAMBDA hi :
        [m |-> hi.m, ret |-> lo.ret + 256 * hi.ret]))

\* calc_flags_zn
calc_flags_zn(c, val) ==
    [c EXCEPT !.flag_z = (val = 0), !.flag_n = Test(val, 128)]

\* cpu6502_set_status: bits 5 and 4 are not stored
cpu6502_set_status(c, value) ==
    [c EXCEPT !.flag_n = Test(value, 128), !.flag_v = Test(value, 64),
              !.flag_d = Test(value, 8),   !.flag_i = Test(value, 4),
              !.flag_z = Test(value, 2),   !.flag_c = Test(value, 1)]

\* A status byte that is only the six flags.
cpu6502_get_status_flags_only(c) ==
      (IF c.flag_c THEN 1 ELSE 0) + (IF c.flag_z THEN 2 ELSE 0)
    + (IF c.flag_i THEN 4 ELSE 0) + (IF c.flag_d THEN 8 ELSE 0)
    + (IF c.flag_v THEN 64 ELSE 0) + (IF c.flag_n THEN 128 ELSE 0)

\* cpu6502_get_status: bit 5 always set, bit 4 never
cpu6502_get_status(c) ==
      (IF c.flag_c THEN 1 ELSE 0) + (IF c.flag_z THEN 2 ELSE 0)
    + (IF c.flag_i THEN 4 ELSE 0) + (IF c.flag_d THEN 8 ELSE 0)
    + 32
    + (IF c.flag_v THEN 64 ELSE 0) + (IF c.flag_n THEN 128 ELSE 0)

\* An indexed address that never reports a page crossing.
am_index_without_penalty(r, index, advance) ==
    [r.m EXCEPT !.cpu.penalty_address = 0,
                !.cpu.effective_addr = U16(r.ret + index),
                !.cpu.pc = U16(@ + advance)]

\* base + index with the page-crossing check of am_absolute_x,
\* am_absolute_y and am_indirect_indexed; r is the read that gave the base
am_index(r, index, advance) ==
    [r.m EXCEPT !.cpu.penalty_address =
                   IF (r.ret \div 256) # (U16(r.ret + index) \div 256)
                   THEN 1 ELSE 0,
                !.cpu.effective_addr = U16(r.ret + index),
                !.cpu.pc = U16(@ + advance)]

\* A pointer whose high byte is at the next address, across pages too.
am_indirect_high_next(ptr) == U16(ptr + 1)

\* am_indirect: where the high byte of the pointer ptr is read, in the page
\* of ptr
am_indirect_high(ptr) == BitOr(BitAnd(ptr, 65280), BitAnd(ptr + 1, 255))

\* The addressing-mode routines am_implied .. am_indirect_indexed, selected
\* by name as opcode->addr_mode() selects them by pointer: those that take
\* no operand, those that start by reading the byte at pc, those that start
\* with read_word(pc).  The two reads that am_indirect and
\* am_indirect_indexed combine with | are taken in the order written.
addr_mode(m, mode) ==
    CASE mode \in {"am_implied", "am_accumulator"} -> m
      [] mode = "am_immediate" ->
           [m EXCEPT !.cpu.effective_addr = m.cpu.pc, !.cpu.pc = U16(@ + 1)]
      [] mode \in {"am_zero_page", "am_zero_page_x", "am_zero_page_y",
                   "am_relative", "am_indexed_indirect",
                   "am_indirect_indexed"} ->
           Let(bus_read_memory(m, m.cpu.pc), LAMBDA op8 :
             CASE mode = "am_zero_page" ->
                    [op8.m EXCEPT !.cpu.effective_addr = op8.ret,
                                  !.cpu.pc = U16(@ + 1)]
               [] mode = "am_zero_page_x" ->
                    [op8.m EXCEPT !.cpu.effective_addr = U8(op8.ret + m.cpu.x),
                                  !.cpu.pc = U16(@ + 1)]
               [] mode = "am_zero_page_y" ->
                    [op8.m EXCEPT !.cpu.effective_addr = U8(op8.ret + m.cpu.y),
                                  !.cpu.pc = U16(@ + 1)]
               [] mode = "am_relative" ->
                    [op8.m EXCEPT
                        !.cpu.effective_addr =
                            U16(m.cpu.pc + 1 + (IF op8.ret >= 128
                                                THEN op8.ret - 256 ELSE op8.ret)),
                        !.cpu.pc = U16(@ + 1)]
               [] OTHER ->
                    LET ptr == IF mode = "am_indexed_indirect"
                               THEN U8(op8.ret + m.cpu.x) ELSE op8.ret
                    IN  Let(bus_read_memory(op8.m, ptr), LAMBDA lo :
                        Let(bus_read_memory(lo.m, U8(ptr + 1)), LAMBDA hi :
                            IF mode = "am_indexed_indirect"
                            THEN [hi.m EXCEPT
                                     !.cpu.effective_addr = lo.ret + 256 * hi.ret,
                                     !.cpu.pc = U16(@ + 1)]
                            ELSE am_index([m |-> hi.m,
                                           ret |-> lo.ret + 256 * hi.ret],
                                          m.cpu.y, 1))))
      [] mode \in {"am_absolute", "am_absolute_x", "am_absolute_y",
                   "am_indirect"} ->
           Let(read_word(m, m.cpu.pc), LAMBDA op16 :
             CASE mode = "am_absolute" ->
                    [op16.m EXCEPT !.cpu.effective_addr = op16.ret,
                                   !.cpu.pc = U16(@ + 2)]
               [] mode = "am_absolute_x" -> am_index(op16, m.cpu.x, 2)
               [] mode = "am_absolute_y" -> am_index(op16, m.cpu.y, 2)
               [] mode = "am_indirect" ->
                    Let(bus_read_memory(op16.m, op16.ret), LAMBDA lo :
                    Let(bus_read_memory(lo.m, am_indirect_high(op16.ret)),
                        LAMBDA hi :
                        [hi.m EXCEPT !.cpu.effective_addr = lo.ret + 256 * hi.ret,
                                     !.cpu.pc = U16(@ + 2)])))

\* get_operand
get_operand(m, mode) ==
    IF mode = "am_accumulator" THEN [m |-> m, ret |-> m.cpu.a]
    ELSE bus_read_memory(m, m.cpu.effective_addr)

\* put_operand
put_operand(m, mode, value) ==
    IF mode = "am_accumulator" THEN [m EXCEPT !.cpu.a = value]
    ELSE bus_write_memory(m, m.cpu.effective_addr, value)

\* opcode_table_init: addressing mode, function and base cycles of each of
\* the 256 opcodes, in opcode order
OpcodeEntry(mode, func, cycles) ==
    [addr_mode |-> mode, opcode_func |-> func, cycles |-> cycles]

opcode_rows ==
    <<
    OpcodeEntry("am_implied", "op_brk", 7),               \* $00
    OpcodeEntry("am_indexed_indirect", "op_ora", 6),      \* $01
    OpcodeEntry("am_implied", "op_jam", 2),               \* $02
    OpcodeEntry("am_indexed_indirect", "op_slo", 8),      \* $03
    OpcodeEntry("am_zero_page", "op_nop", 3),             \* $04
    OpcodeEntry("am_zero_page", "op_ora", 3),             \* $05
    OpcodeEntry("am_zero_page", "op_asl", 5),             \* $06
    OpcodeEntry("am_zero_page", "op_slo", 5),             \* $07
    OpcodeEntry("am_implied", "op_php", 3),               \* $08
    OpcodeEntry("am_immediate", "op_ora", 2),             \* $09
    OpcodeEntry("am_accumulator", "op_asl", 2),           \* $0A
    OpcodeEntry("am_immediate", "op_anc", 2),             \* $0B
    OpcodeEntry("am_absolute", "op_nop", 4),              \* $0C
    OpcodeEntry("am_absolute", "op_ora", 4),              \* $0D
    OpcodeEntry("am_absolute", "op_asl", 6),              \* $0E
    OpcodeEntry("am_absolute", "op_slo", 6),              \* $0F
    OpcodeEntry("am_relative", "op_bpl", 2),              \* $10
    OpcodeEntry("am_indirect_indexed", "op_ora", 5),      \* $11
    OpcodeEntry("am_implied", "op_jam", 2),               \* $12
    OpcodeEntry("am_indirect_indexed", "op_slo", 8),      \* $13
    OpcodeEntry("am_zero_page_x", "op_nop", 4),           \* $14
    OpcodeEntry("am_zero_page_x", "op_ora", 4),           \* $15
    OpcodeEntry("am_zero_page_x", "op_asl", 6),           \* $16
    OpcodeEntry("am_zero_page_x", "op_slo", 6),           \* $17
    OpcodeEntry("am_implied", "op_clc", 2),               \* $18
    OpcodeEntry("am_absolute_y", "op_ora", 4),            \* $19
    OpcodeEntry("am_implied", "op_nop", 2),               \* $1A
    OpcodeEntry("am_absolute_y", "op_slo", 7),            \* $1B
    OpcodeEntry("am_absolute_x", "op_nop", 4),            \* $1C
    OpcodeEntry("am_absolute_x", "op_ora", 4),            \* $1D
    OpcodeEntry("am_absolute_x", "op_asl", 7),            \* $1E
    OpcodeEntry("am_absolute_x", "op_slo", 7),            \* $1F
    OpcodeEntry("am_absolute", "op_jsr", 6),              \* $20
    OpcodeEntry("am_indexed_indirect", "op_and", 6),      \* $21
    OpcodeEntry("am_implied", "op_jam", 2),               \* $22
    OpcodeEntry("am_indexed_indirect", "op_rla", 8),      \* $23
    OpcodeEntry("am_zero_page", "op_bit", 3),             \* $24
    OpcodeEntry("am_zero_page", "op_and", 3),             \* $25
    OpcodeEntry("am_zero_page", "op_rol", 5),             \* $26
    OpcodeEntry("am_zero_page", "op_rla", 5),             \* $27
    OpcodeEntry("am_implied", "op_plp", 4),               \* $28
    OpcodeEntry("am_immediate", "op_and", 2),             \* $29
    OpcodeEntry("am_accumulator", "op_rol", 2),           \* $2A
    OpcodeEntry("am_immediate", "op_anc", 2),             \* $2B
    OpcodeEntry("am_absolute", "op_bit", 4),              \* $2C
    OpcodeEntry("am_absolute", "op_and", 4),              \* $2D
    OpcodeEntry("am_absolute", "op_rol", 6),              \* $2E
    OpcodeEntry("am_absolute", "op_rla", 6),              \* $2F
    OpcodeEntry("am_relative", "op_bmi", 2),              \* $30
    OpcodeEntry("am_indirect_indexed", "op_and", 5),      \* $31
    OpcodeEntry("am_implied", "op_jam", 2),               \* $32
    OpcodeEntry("am_indirect_indexed", "op_rla", 8),      \* $33
    OpcodeEntry("am_zero_page_x", "op_nop", 4),           \* $34
    OpcodeEntry("am_zero_page_x", "op_and", 4),           \* $35
    OpcodeEntry("am_zero_page_x", "op_rol", 6),           \* $36
    OpcodeEntry("am_zero_page_x", "op_rla", 6),           \* $37
    OpcodeEntry("am_implied", "op_sec", 2),               \* $38
    OpcodeEntry("am_absolute_y", "op_and", 4),            \* $39
    OpcodeEntry("am_implied", "op_nop", 2),               \* $3A
    OpcodeEntry("am_absolute_y", "op_rla", 7),            \* $3B
    OpcodeEntry("am_absolute_x", "op_nop", 4),            \* $3C
    OpcodeEntry("am_absolute_x", "op_and", 4),            \* $3D
    OpcodeEntry("am_absolute_x", "op_rol", 7),            \* $3E
    OpcodeEntry("am_absolute_x", "op_rla", 7),            \* $3F
    OpcodeEntry("am_implied", "op_rti", 6),               \* $40
    OpcodeEntry("am_indexed_indirect", "op_eor", 6),      \* $41
    OpcodeEntry("am_implied", "op_jam", 2),               \* $42
    OpcodeEntry("am_indexed_indirect", "op_sre", 8),      \* $43
    OpcodeEntry("am_zero_page", "op_nop", 3),             \* $44
    OpcodeEntry("am_zero_page", "op_eor", 3),             \* $45
    OpcodeEntry("am_zero_page", "op_lsr", 5),             \* $46
    OpcodeEntry("am_zero_page", "op_sre", 5),             \* $47
    OpcodeEntry("am_implied", "op_pha", 3),               \* $48
    OpcodeEntry("am_immediate", "op_eor", 2),             \* $49
    OpcodeEntry("am_accumulator", "op_lsr", 2),           \* $4A
    OpcodeEntry("am_immediate", "op_alr", 2),             \* $4B
    OpcodeEntry("am_absolute", "op_jmp", 3),              \* $4C
    OpcodeEntry("am_absolute", "op_eor", 4),              \* $4D
    OpcodeEntry("am_absolute", "op_lsr", 6),              \* $4E
    OpcodeEntry("am_absolute", "op_sre", 6),              \* $4F
    OpcodeEntry("am_relative", "op_bvc", 2),              \* $50
    OpcodeEntry("am_indirect_indexed", "op_eor", 5),      \* $51
    OpcodeEntry("am_implied", "op_jam", 2),               \* $52
    OpcodeEntry("am_indirect_indexed", "op_sre", 8),      \* $53
    OpcodeEntry("am_zero_page_x", "op_nop", 4),           \* $54
    OpcodeEntry("am_zero_page_x", "op_eor", 4),           \* $55
    OpcodeEntry("am_zero_page_x", "op_lsr", 6),           \* $56
    OpcodeEntry("am_zero_page_x", "op_sre", 6),           \* $57
    OpcodeEntry("am_implied", "op_cli", 2),               \* $58
    OpcodeEntry("am_absolute_y", "op_eor", 4),            \* $59
    OpcodeEntry("am_implied", "op_nop", 2),               \* $5A
    OpcodeEntry("am_absolute_y", "op_sre", 7),            \* $5B
    OpcodeEntry("am_absolute_x", "op_nop", 4),            \* $5C
    OpcodeEntry("am_absolute_x", "op_eor", 4),            \* $5D
    OpcodeEntry("am_absolute_x", "op_lsr", 7),            \* $5E
    OpcodeEntry("am_absolute_x", "op_sre", 7),            \* $5F
    OpcodeEntry("am_implied", "op_rts", 6),               \* $60
    OpcodeEntry("am_indexed_indirect", "op_adc", 6),      \* $61
    OpcodeEntry("am_implied", "op_jam", 2),               \* $62
    OpcodeEntry("am_indexed_indirect", "op_rra", 8),      \* $63
    OpcodeEntry("am_zero_page", "op_nop", 3),             \* $64
    OpcodeEntry("am_zero_page", "op_adc", 3),             \* $65
    OpcodeEntry("am_zero_page", "op_ror", 5),             \* $66
    OpcodeEntry("am_zero_page", "op_rra", 5),             \* $67
    OpcodeEntry("am_implied", "op_pla", 4),               \* $68
    OpcodeEntry("am_immediate", "op_adc", 2),             \* $69
    OpcodeEntry("am_accumulator", "op_ror", 2),           \* $6A
    OpcodeEntry("am_immediate", "op_arr", 2),             \* $6B
    OpcodeEntry("am_indirect", "op_jmp", 5),              \* $6C
    OpcodeEntry("am_absolute", "op_adc", 4),              \* $6D
    OpcodeEntry("am_absolute", "op_ror", 6),              \* $6E
    OpcodeEntry("am_absolute", "op_rra", 6),              \* $6F
    OpcodeEntry("am_relative", "op_bvs", 2),              \* $70
    OpcodeEntry("am_indirect_indexed", "op_adc", 5),      \* $71
    OpcodeEntry("am_implied", "op_jam", 2),               \* $72
    OpcodeEntry("am_indirect_indexed", "op_rra", 8),      \* $73
    OpcodeEntry("am_zero_page_x", "op_nop", 4),           \* $74
    OpcodeEntry("am_zero_page_x", "op_adc", 4),           \* $75
    OpcodeEntry("am_zero_page_x", "op_ror", 6),           \* $76
    OpcodeEntry("am_zero_page_x", "op_rra", 6),           \* $77
    OpcodeEntry("am_implied", "op_sei", 2),               \* $78
    OpcodeEntry("am_absolute_y", "op_adc", 4),            \* $79
    OpcodeEntry("am_implied", "op_nop", 2),               \* $7A
    OpcodeEntry("am_absolute_y", "op_rra", 7),            \* $7B
    OpcodeEntry("am_absolute_x", "op_nop", 4),            \* $7C
    OpcodeEntry("am_absolute_x", "op_adc", 4),            \* $7D
    OpcodeEntry("am_absolute_x", "op_ror", 7),            \* $7E
    OpcodeEntry("am_absolute_x", "op_rra", 7),            \* $7F
    OpcodeEntry("am_immediate", "op_nop", 2),             \* $80
    OpcodeEntry("am_indexed_indirect", "op_sta", 6),      \* $81
    OpcodeEntry("am_immediate", "op_nop", 2),             \* $82
    OpcodeEntry("am_indexed_indirect", "op_sax", 6),      \* $83
    OpcodeEntry("am_zero_page", "op_sty", 3),             \* $84
    OpcodeEntry("am_zero_page", "op_sta", 3),             \* $85
    OpcodeEntry("am_zero_page", "op_stx", 3),             \* $86
    OpcodeEntry("am_zero_page", "op_sax", 3),             \* $87
    OpcodeEntry("am_implied", "op_dey", 2),               \* $88
    OpcodeEntry("am_immediate", "op_nop", 2),             \* $89
    OpcodeEntry("am_implied", "op_txa", 2),               \* $8A
    OpcodeEntry("am_immediate", "op_ane", 2),             \* $8B
    OpcodeEntry("am_absolute", "op_sty", 4),              \* $8C
    OpcodeEntry("am_absolute", "op_sta", 4),              \* $8D
    OpcodeEntry("am_absolute", "op_stx", 4),              \* $8E
    OpcodeEntry("am_absolute", "op_sax", 4),              \* $8F
    OpcodeEntry("am_relative", "op_bcc", 2),              \* $90
    OpcodeEntry("am_indirect_indexed", "op_sta", 6),      \* $91
    OpcodeEntry("am_implied", "op_jam", 2),               \* $92
    OpcodeEntry("am_indirect_indexed", "op_sha", 6),      \* $93
    OpcodeEntry("am_zero_page_x", "op_sty", 4),           \* $94
    OpcodeEntry("am_zero_page_x", "op_sta", 4),           \* $95
    OpcodeEntry("am_zero_page_y", "op_stx", 4),           \* $96
    OpcodeEntry("am_zero_page_y", "op_sax", 4),           \* $97
    OpcodeEntry("am_implied", "op_tya", 2),               \* $98
    OpcodeEntry("am_absolute_y", "op_sta", 5),            \* $99
    OpcodeEntry("am_implied", "op_txs", 2),               \* $9A
    OpcodeEntry("am_absolute_y", "op_tas", 5),            \* $9B
    OpcodeEntry("am_absolute_x", "op_shy", 5),            \* $9C
    OpcodeEntry("am_absolute_x", "op_sta", 5),            \* $9D
    OpcodeEntry("am_absolute_y", "op_shx", 5),            \* $9E
    OpcodeEntry("am_absolute_y", "op_sha", 5),            \* $9F
    OpcodeEntry("am_immediate", "op_ldy", 2),             \* $A0
    OpcodeEntry("am_indexed_indirect", "op_lda", 6),      \* $A1
    OpcodeEntry("am_immediate", "op_ldx", 2),             \* $A2
    OpcodeEntry("am_indexed_indirect", "op_lax", 6),      \* $A3
    OpcodeEntry("am_zero_page", "op_ldy", 3),             \* $A4
    OpcodeEntry("am_zero_page", "op_lda", 3),             \* $A5
    OpcodeEntry("am_zero_page", "op_ldx", 3),             \* $A6
    OpcodeEntry("am_zero_page", "op_lax", 3),             \* $A7
    OpcodeEntry("am_implied", "op_tay", 2),               \* $A8
    OpcodeEntry("am_immediate", "op_lda", 2),             \* $A9
    OpcodeEntry("am_implied", "op_tax", 2),               \* $AA
    OpcodeEntry("am_immediate", "op_lxa", 2),             \* $AB
    OpcodeEntry("am_absolute", "op_ldy", 4),              \* $AC
    OpcodeEntry("am_absolute", "op_lda", 4),              \* $AD
    OpcodeEntry("am_absolute", "op_ldx", 4),              \* $AE
    OpcodeEntry("am_absolute", "op_lax", 4),              \* $AF
    OpcodeEntry("am_relative", "op_bcs", 2),              \* $B0
    OpcodeEntry("am_indirect_indexed", "op_lda", 5),      \* $B1
    OpcodeEntry("am_implied", "op_jam", 2),               \* $B2
    OpcodeEntry("am_indirect_indexed", "op_lax", 5),      \* $B3
    OpcodeEntry("am_zero_page_x", "op_ldy", 4),           \* $B4
    OpcodeEntry("am_zero_page_x", "op_lda", 4),           \* $B5
    OpcodeEntry("am_zero_page_y", "op_ldx", 4),           \* $B6
    OpcodeEntry("am_zero_page_y", "op_lax", 4),           \* $B7
    OpcodeEntry("am_implied", "op_clv", 2),               \* $B8
    OpcodeEntry("am_absolute_y", "op_lda", 4),            \* $B9
    OpcodeEntry("am_implied", "op_tsx", 2),               \* $BA
    OpcodeEntry("am_absolute_y", "op_las", 4),            \* $BB
    OpcodeEntry("am_absolute_x", "op_ldy", 4),            \* $BC
    OpcodeEntry("am_absolute_x", "op_lda", 4),            \* $BD
    OpcodeEntry("am_absolute_y", "op_ldx", 4),            \* $BE
    OpcodeEntry("am_absolute_y", "op_lax", 4),            \* $BF
    OpcodeEntry("am_immediate", "op_cpy", 2),             \* $C0
    OpcodeEntry("am_indexed_indirect", "op_cmp", 6),      \* $C1
    OpcodeEntry("am_immediate", "op_nop", 2),             \* $C2
    OpcodeEntry("am_indexed_indirect", "op_dcp", 8),      \* $C3
    OpcodeEntry("am_zero_page", "op_cpy", 3),             \* $C4
    OpcodeEntry("am_zero_page", "op_cmp", 3),             \* $C5
    OpcodeEntry("am_zero_page", "op_dec", 5),             \* $C6
    OpcodeEntry("am_zero_page", "op_dcp", 5),             \* $C7
    OpcodeEntry("am_implied", "op_iny", 2),               \* $C8
    OpcodeEntry("am_immediate", "op_cmp", 2),             \* $C9
    OpcodeEntry("am_implied", "op_dex", 2),               \* $CA
    OpcodeEntry("am_immediate", "op_sbx", 2),             \* $CB
    OpcodeEntry("am_absolute", "op_cpy", 4),              \* $CC
    OpcodeEntry("am_absolute", "op_cmp", 4),              \* $CD
    OpcodeEntry("am_absolute", "op_dec", 6),              \* $CE
    OpcodeEntry("am_absolute", "op_dcp", 6),              \* $CF
    OpcodeEntry("am_relative", "op_bne", 2),              \* $D0
    OpcodeEntry("am_indirect_indexed", "op_cmp", 5),      \* $D1
    OpcodeEntry("am_implied", "op_jam", 2),               \* $D2
    OpcodeEntry("am_indirect_indexed", "op_dcp", 8),      \* $D3
    OpcodeEntry("am_zero_page_x", "op_nop", 4),           \* $D4
    OpcodeEntry("am_zero_page_x", "op_cmp", 4),           \* $D5
    OpcodeEntry("am_zero_page_x", "op_dec", 6),           \* $D6
    OpcodeEntry("am_zero_page_x", "op_dcp", 6),           \* $D7
    OpcodeEntry("am_implied", "op_cld", 2),               \* $D8
    OpcodeEntry("am_absolute_y", "op_cmp", 4),            \* $D9
    OpcodeEntry("am_implied", "op_nop", 2),               \* $DA
    OpcodeEntry("am_absolute_y", "op_dcp", 7),            \* $DB
    OpcodeEntry("am_absolute_x", "op_nop", 4),            \* $DC
    OpcodeEntry("am_absolute_x", "op_cmp", 4),            \* $DD
    OpcodeEntry("am_absolute_x", "op_dec", 7),            \* $DE
    OpcodeEntry("am_absolute_x", "op_dcp", 7),            \* $DF
    OpcodeEntry("am_immediate", "op_cpx", 2),             \* $E0
    OpcodeEntry("am_indexed_indirect", "op_sbc", 6),      \* $E1
    OpcodeEntry("am_immediate", "op_nop", 2),             \* $E2
    OpcodeEntry("am_indexed_indirect", "op_isc", 8),      \* $E3
    OpcodeEntry("am_zero_page", "op_cpx", 3),             \* $E4
    OpcodeEntry("am_zero_page", "op_sbc", 3),             \* $E5
    OpcodeEntry("am_zero_page", "op_inc", 5),             \* $E6
    OpcodeEntry("am_zero_page", "op_isc", 5),             \* $E7
    OpcodeEntry("am_implied", "op_inx", 2),               \* $E8
    OpcodeEntry("am_immediate", "op_sbc", 2),             \* $E9
    OpcodeEntry("am_implied", "op_nop", 2),               \* $EA
    OpcodeEntry("am_immediate", "op_sbc", 2),             \* $EB
    OpcodeEntry("am_absolute", "op_cpx", 4),              \* $EC
    OpcodeEntry("am_absolute", "op_sbc", 4),              \* $ED
    OpcodeEntry("am_absolute", "op_inc", 6),              \* $EE
    OpcodeEntry("am_absolute", "op_isc", 6),              \* $EF
    OpcodeEntry("am_relative", "op_beq", 2),              \* $F0
    OpcodeEntry("am_indirect_indexed", "op_sbc", 5),      \* $F1
    OpcodeEntry("am_implied", "op_jam", 2),               \* $F2
    OpcodeEntry("am_indirect_indexed", "op_isc", 8),      \* $F3
    OpcodeEntry("am_zero_page_x", "op_nop", 4),           \* $F4
    OpcodeEntry("am_zero_page_x", "op_sbc", 4),           \* $F5
    OpcodeEntry("am_zero_page_x", "op_inc", 6),           \* $F6
    OpcodeEntry("am_zero_page_x", "op_isc", 6),           \* $F7
    OpcodeEntry("am_implied", "op_sed", 2),               \* $F8
    OpcodeEntry("am_absolute_y", "op_sbc", 4),            \* $F9
    OpcodeEntry("am_implied", "op_nop", 2),               \* $FA
    OpcodeEntry("am_absolute_y", "op_isc", 7),            \* $FB
    OpcodeEntry("am_absolute_x", "op_nop", 4),            \* $FC
    OpcodeEntry("am_absolute_x", "op_sbc", 4),            \* $FD
    OpcodeEntry("am_absolute_x", "op_inc", 7),            \* $FE
    OpcodeEntry("am_absolute_x", "op_isc", 7)             \* $FF
    >>

opcode_table == [opcode \in 0..255 |-> opcode_rows[opcode + 1]]

\* A PHP that pushes the status as cpu6502_get_status yields it.
op_php_without_break(m) == push8(m, cpu6502_get_status(m.cpu))

\* op_php: the status with B = 1
op_php(m) == push8(m, BitOr(cpu6502_get_status(m.cpu), 16))

\* op_brk: pc is already past the opcode; the byte after it is skipped
op_brk(m) ==
    Let(read_word(
            [op_php(push16([m EXCEPT !.cpu.pc = U16(@ + 1)], U16(m.cpu.pc + 1)))
                EXCEPT !.cpu.flag_i = TRUE],
            IRQ_VECTOR), LAMBDA vector :
        [vector.m EXCEPT !.cpu.pc = vector.ret])

\* op_plp
op_plp(m) ==
    Let(pull8(m), LAMBDA p :
        [p.m EXCEPT !.cpu = cpu6502_set_status(@, p.ret)])

\* op_rti
op_rti(m) ==
    Let(pull8(m), LAMBDA p :
    Let(pull16([p.m EXCEPT !.cpu = cpu6502_set_status(@, p.ret)]), LAMBDA pc :
        [pc.m EXCEPT !.cpu.pc = pc.ret]))

\* op_jsr
op_jsr(m) ==
    [push16(m, U16(m.cpu.pc - 1)) EXCEPT !.cpu.pc = m.cpu.effective_addr]

\* op_rts
op_rts(m) ==
    Let(pull16(m), LAMBDA pc : [pc.m EXCEPT !.cpu.pc = U16(pc.ret + 1)])

\* op_pla
op_pla(m) ==
    Let(pull8(m), LAMBDA a :
        [a.m EXCEPT !.cpu = calc_flags_zn([@ EXCEPT !.a = a.ret], a.ret)])

\* A JAM that lets the CPU run on.
op_jam_runs_on(m) == m

\* op_jam
op_jam(m) == [m EXCEPT !.cpu.halted = TRUE]

\* calc_flag_v: bit 7 of (~(accu ^ operand)) & (accu ^ result)
calc_flag_v(c, result, accu, operand) ==
    [c EXCEPT !.flag_v = /\ ~Test(BitXor(accu, operand), 128)
                         /\ Test(BitXor(accu, U8(result)), 128)]

\* compare
compare(c, reg, operand) ==
    calc_flags_zn([c EXCEPT !.flag_c = (reg >= operand)], U8(reg - operand))

\* A branch that costs one cycle more when taken, wherever it lands.
branch_without_page_penalty(m, condition) ==
    IF condition
    THEN [m EXCEPT !.cpu.pc = m.cpu.effective_addr, !.cpu.cycles = @ + 1]
    ELSE m

\* branch: one cycle more when taken, and one more when the target is in
\* another page than pc, which is then the address of the next instruction
branch(m, condition) ==
    IF condition
    THEN [m EXCEPT !.cpu.pc = m.cpu.effective_addr,
                   !.cpu.cycles =
                       IF (m.cpu.pc \div 256) # (m.cpu.effective_addr \div 256)
                       THEN @ + 2 ELSE @ + 1]
    ELSE m

\* op_lda, op_ldx, op_ldy
op_lda(m, mode) ==
    Let(get_operand([m EXCEPT !.cpu.penalty_opcode = 1], mode), LAMBDA operand :
        [operand.m EXCEPT
            !.cpu = calc_flags_zn([@ EXCEPT !.a = operand.ret], operand.ret)])

op_ldx(m, mode) ==
    Let(get_operand([m EXCEPT !.cpu.penalty_opcode = 1], mode), LAMBDA operand :
        [operand.m EXCEPT
            !.cpu = calc_flags_zn([@ EXCEPT !.x = operand.ret], operand.ret)])

op_ldy(m, mode) ==
    Let(get_operand([m EXCEPT !.cpu.penalty_opcode = 1], mode), LAMBDA operand :
        [operand.m EXCEPT
            !.cpu = calc_flags_zn([@ EXCEPT !.y = operand.ret], operand.ret)])

\* op_ora, op_and, op_eor
op_ora(m, mode) ==
    Let(get_operand([m EXCEPT !.cpu.penalty_opcode = 1], mode), LAMBDA operand :
        [operand.m EXCEPT
            !.cpu = calc_flags_zn([@ EXCEPT !.a = BitOr(@, operand.ret)],
                                  BitOr(m.cpu.a, operand.ret))])

op_and(m, mode) ==
    Let(get_operand([m EXCEPT !.cpu.penalty_opcode = 1], mode), LAMBDA operand :
        [operand.m EXCEPT
            !.cpu = calc_flags_zn([@ EXCEPT !.a = BitAnd(@, operand.ret)],
                                  BitAnd(m.cpu.a, operand.ret))])

op_eor(m, mode) ==
    Let(get_operand([m EXCEPT !.cpu.penalty_opcode = 1], mode), LAMBDA operand :
        [operand.m EXCEPT
            !.cpu = calc_flags_zn([@ EXCEPT !.a = BitXor(@, operand.ret)],
                                  BitXor(m.cpu.a, operand.ret))])

\* op_cmp: compare, then penalty_opcode
op_cmp(m, mode) ==
    Let(get_operand(m, mode), LAMBDA operand :
        [operand.m EXCEPT
            !.cpu = [compare(@, m.cpu.a, operand.ret)
                        EXCEPT !.penalty_opcode = 1]])

\* (int16_t) of a uint16_t
Int16(v) == IF v >= 32768 THEN v - 65536 ELSE v

\* The registers op_adc leaves for an operand, with the low-nibble
\* correction of decimal mode left out.
adc_without_low_correction(c, operand) ==
    LET carry  == IF c.flag_c THEN 1 ELSE 0
        binary == c.a + operand + carry
        z      == [c EXCEPT !.flag_z = (U8(binary) = 0)]
    IN  IF ~c.flag_d
        THEN [calc_flag_v([z EXCEPT !.flag_c = (binary > 255)],
                          binary, c.a, operand)
                 EXCEPT !.flag_n = Test(U8(binary), 128), !.a = U8(binary)]
        ELSE LET high  == (c.a % 16) + (operand % 16) + carry
                          + BitAnd(c.a, 240) + BitAnd(operand, 240)
                 fixed == IF high >= 160 THEN high + 96 ELSE high
             IN  [calc_flag_v([z EXCEPT !.flag_n = Test(U8(high), 128)],
                              high, c.a, operand)
                     EXCEPT !.cycles = @ + 1, !.flag_c = (fixed > 255),
                            !.a = U8(fixed)]

\* The registers op_adc leaves for an operand: Z always from the binary sum;
\* in decimal mode N and V from the sum before the high-nibble correction,
\* C after it, and one cycle more
adc(c, operand) ==
    LET carry  == IF c.flag_c THEN 1 ELSE 0
        binary == c.a + operand + carry
        z      == [c EXCEPT !.flag_z = (U8(binary) = 0)]
    IN  IF ~c.flag_d
        THEN [calc_flag_v([z EXCEPT !.flag_c = (binary > 255)],
                          binary, c.a, operand)
                 EXCEPT !.flag_n = Test(U8(binary), 128), !.a = U8(binary)]
        ELSE LET low   == (c.a % 16) + (operand % 16) + carry
                 al    == IF low >= 10 THEN ((low + 6) % 16) + 16 ELSE low
                 high  == al + BitAnd(c.a, 240) + BitAnd(operand, 240)
                 fixed == IF high >= 160 THEN high + 96 ELSE high
             IN  [calc_flag_v([z EXCEPT !.flag_n = Test(U8(high), 128)],
                              high, c.a, operand)
                     EXCEPT !.cycles = @ + 1, !.flag_c = (fixed > 255),
                            !.a = U8(fixed)]

\* op_adc
op_adc(m, mode) ==
    Let(get_operand([m EXCEPT !.cpu.penalty_opcode = 1], mode), LAMBDA operand :
        [operand.m EXCEPT !.cpu = adc(@, operand.ret)])

\* The registers op_sbc leaves for the byte read, with the high-nibble
\* correction of decimal mode left out.
sbc_without_high_correction(c, value) ==
    LET old_c   == IF c.flag_c THEN 1 ELSE 0
        operand == BitXor(value, 255)
        binary  == c.a + operand + old_c
        flags   == calc_flag_v(
                       calc_flags_zn([c EXCEPT !.flag_c = (binary > 255)],
                                     U8(binary)),
                       binary, c.a, operand)
    IN  IF ~c.flag_d THEN [flags EXCEPT !.a = U8(binary)]
        ELSE LET low    == U16((c.a % 16) - (value % 16) + old_c - 1)
                 al     == IF Int16(low) < 0
                           THEN U16(((low - 6) % 16) - 16) ELSE low
                 result == U16(BitAnd(c.a, 240) - BitAnd(value, 240) + al)
             IN  [flags EXCEPT !.cycles = @ + 1, !.a = U8(result)]

\* The registers op_sbc leaves for the byte read: the flags always from the
\* binary sum with the complemented operand; in decimal mode the nibbles are
\* subtracted in uint16_t with the corrections on (int16_t) < 0, and one
\* cycle more
sbc(c, value) ==
    LET old_c   == IF c.flag_c THEN 1 ELSE 0
        operand == BitXor(value, 255)
        binary  == c.a + operand + old_c
        flags   == calc_flag_v(
                       calc_flags_zn([c EXCEPT !.flag_c = (binary > 255)],
                                     U8(binary)),
                       binary, c.a, operand)
    IN  IF ~c.flag_d THEN [flags EXCEPT !.a = U8(binary)]
        ELSE LET low    == U16((c.a % 16) - (value % 16) + old_c - 1)
                 al     == IF Int16(low) < 0
                           THEN U16(((low - 6) % 16) - 16) ELSE low
                 high   == U16(BitAnd(c.a, 240) - BitAnd(value, 240) + al)
                 result == IF Int16(high) < 0 THEN U16(high - 96) ELSE high
             IN  [flags EXCEPT !.cycles = @ + 1, !.a = U8(result)]

\* op_sbc
\* A faulty op_sbc that does not count the extra cycle of decimal mode.
op_sbc_without_extra_cycle(m, mode) ==
    Let(get_operand([m EXCEPT !.cpu.penalty_opcode = 1], mode), LAMBDA operand :
        [operand.m EXCEPT !.cpu = [sbc(@, operand.ret)
                                      EXCEPT !.cycles = operand.m.cpu.cycles]])

\* op_sbc
op_sbc(m, mode) ==
    Let(get_operand([m EXCEPT !.cpu.penalty_opcode = 1], mode), LAMBDA operand :
        [operand.m EXCEPT !.cpu = sbc(@, operand.ret)])

\* op_asl
op_asl(m, mode) ==
    Let(get_operand(m, mode), LAMBDA operand :
        put_operand(
            [operand.m EXCEPT
                !.cpu = calc_flags_zn([@ EXCEPT !.flag_c = (operand.ret >= 128)],
                                      U8(2 * operand.ret))],
            mode, U8(2 * operand.ret)))

\* op_lax: op_lda, then op_ldx reads the operand again
op_lax(m, mode) == op_ldx(op_lda(m, mode), mode)

\* op_las
op_las(m, mode) ==
    Let(get_operand([m EXCEPT !.cpu.penalty_opcode = 1], mode), LAMBDA operand :
    Let(BitAnd(operand.ret, m.cpu.sp), LAMBDA value :
        [operand.m EXCEPT
            !.cpu = calc_flags_zn([@ EXCEPT !.a = value, !.x = value,
                                            !.sp = value], value)]))

\* op_sha, and the store of op_tas: (high byte of the address + 1) & 0xFF
\* masks the value
op_sha(m, mode) ==
    put_operand(m, mode,
                BitAnd(BitAnd(m.cpu.a, m.cpu.x),
                       U8((m.cpu.effective_addr \div 256) + 1)))

\* op_tas
op_tas(m, mode) ==
    put_operand([m EXCEPT !.cpu.sp = BitAnd(m.cpu.a, m.cpu.x)], mode,
                BitAnd(BitAnd(m.cpu.a, m.cpu.x),
                       U8((m.cpu.effective_addr \div 256) + 1)))

\* op_shx (reg = x, index = y) and op_shy (reg = y, index = x).
\* effective_addr - index is an int, negative when the indexed address
\* wrapped past $FFFF; >> 8 of it is then the arithmetic shift
sh_store(m, mode, reg, index) ==
    LET base  == m.cpu.effective_addr - index
        value == U8(BitAnd(reg, U8((base \div 256) + 1)))
    IN  put_operand(
            IF (base % 256) + index > 255
            THEN [m EXCEPT !.cpu.effective_addr = (@ % 256) + 256 * value]
            ELSE m,
            mode, value)

\* The opcode functions modelled; the others are not executed by any program
\* explored.
\* The read-modify-write body shared by op_rol, op_lsr, op_ror, op_inc and
\* op_dec: the operand is read, carry is set to carry_out, Z and N follow
\* the result, and the result is written back
modify_operand(m, mode, Result(_, _), CarryOut(_, _)) ==
    Let(get_operand(m, mode), LAMBDA operand :
    Let(Result(operand.ret, operand.m.cpu.flag_c), LAMBDA result :
        put_operand(
            [operand.m EXCEPT
                !.cpu = calc_flags_zn(
                            [@ EXCEPT !.flag_c = CarryOut(operand.ret,
                                                          operand.m.cpu.flag_c)],
                            result)],
            mode, result)))

\* op_rol
op_rol(m, mode) ==
    modify_operand(m, mode,
                   LAMBDA v, c : U8(2 * v + (IF c THEN 1 ELSE 0)),
                   LAMBDA v, c : v >= 128)

\* op_lsr
op_lsr(m, mode) ==
    modify_operand(m, mode, LAMBDA v, c : v \div 2, LAMBDA v, c : v % 2 = 1)

\* op_ror
op_ror(m, mode) ==
    modify_operand(m, mode,
                   LAMBDA v, c : (v \div 2) + (IF c THEN 128 ELSE 0),
                   LAMBDA v, c : v % 2 = 1)

\* op_inc
op_inc(m, mode) ==
    modify_operand(m, mode, LAMBDA v, c : U8(v + 1), LAMBDA v, c : c)

\* op_dec
op_dec(m, mode) ==
    modify_operand(m, mode, LAMBDA v, c : U8(v + 255), LAMBDA v, c : c)

\* op_slo: op_asl, then op_ora, whose penalty_opcode = 1 stays
op_slo(m, mode) == op_ora(op_asl(m, mode), mode)

\* op_rla
op_rla(m, mode) ==
    [op_and(op_rol(m, mode), mode) EXCEPT !.cpu.penalty_opcode = 0]

\* op_sre
op_sre(m, mode) ==
    [op_eor(op_lsr(m, mode), mode) EXCEPT !.cpu.penalty_opcode = 0]

\* op_rra: the extra cycle of a decimal op_adc is taken back
op_rra(m, mode) ==
    Let(op_adc(op_ror(m, mode), mode), LAMBDA r :
        [r EXCEPT !.cpu.penalty_opcode = 0,
                  !.cpu.cycles = IF r.cpu.flag_d THEN @ - 1 ELSE @])

\* op_dcp
op_dcp(m, mode) ==
    [op_cmp(op_dec(m, mode), mode) EXCEPT !.cpu.penalty_opcode = 0]

\* op_isc: the extra cycle of a decimal op_sbc is taken back
op_isc(m, mode) ==
    Let(op_sbc(op_inc(m, mode), mode), LAMBDA r :
        [r EXCEPT !.cpu.penalty_opcode = 0,
                  !.cpu.cycles = IF r.cpu.flag_d THEN @ - 1 ELSE @])

ModelledOps ==
    { "op_brk", "op_php", "op_plp", "op_rti", "op_jsr", "op_rts", "op_pha",
      "op_pla", "op_jam", "op_nop", "op_jmp", "op_clc", "op_sec", "op_cli",
      "op_sei", "op_cld", "op_sed", "op_lda", "op_ldx", "op_sta", "op_stx",
      "op_txs", "op_tsx", "op_inx", "op_dex",
      "op_bpl", "op_bmi", "op_bvc", "op_bvs", "op_bcc", "op_bcs", "op_bne",
      "op_beq", "op_ldy", "op_ora", "op_and", "op_eor", "op_adc", "op_sbc",
      "op_cmp", "op_lax", "op_las", "op_sty", "op_sax", "op_sha", "op_shx",
      "op_shy", "op_tas", "op_asl", "op_rol", "op_lsr", "op_ror", "op_inc",
      "op_dec", "op_slo", "op_rla", "op_sre", "op_rra", "op_dcp", "op_isc" }

\* opcode->opcode_func(), selected by name; mode is
\* opcode_table[cpu->current_opcode].addr_mode
opcode_func(m, func, mode) ==
    LET c == m.cpu
    IN  CASE func = "op_brk" -> op_brk(m)
          [] func = "op_php" -> op_php(m)
          [] func = "op_plp" -> op_plp(m)
          [] func = "op_rti" -> op_rti(m)
          [] func = "op_jsr" -> op_jsr(m)
          [] func = "op_rts" -> op_rts(m)
          [] func = "op_pla" -> op_pla(m)
          [] func = "op_jam" -> op_jam(m)
          [] func = "op_pha" -> push8(m, c.a)
          [] func = "op_nop" ->
               IF c.current_opcode \in {28, 60, 92, 124, 220, 252}
               THEN [m EXCEPT !.cpu.penalty_opcode = 1] ELSE m
          [] func = "op_jmp" -> [m EXCEPT !.cpu.pc = c.effective_addr]
          [] func = "op_clc" -> [m EXCEPT !.cpu.flag_c = FALSE]
          [] func = "op_sec" -> [m EXCEPT !.cpu.flag_c = TRUE]
          [] func = "op_cli" -> [m EXCEPT !.cpu.flag_i = FALSE]
          [] func = "op_sei" -> [m EXCEPT !.cpu.flag_i = TRUE]
          [] func = "op_cld" -> [m EXCEPT !.cpu.flag_d = FALSE]
          [] func = "op_sed" -> [m EXCEPT !.cpu.flag_d = TRUE]
          [] func = "op_lda" -> op_lda(m, mode)
          [] func = "op_ldx" -> op_ldx(m, mode)
          [] func = "op_ldy" -> op_ldy(m, mode)
          [] func = "op_ora" -> op_ora(m, mode)
          [] func = "op_and" -> op_and(m, mode)
          [] func = "op_eor" -> op_eor(m, mode)
          [] func = "op_adc" -> op_adc(m, mode)
          [] func = "op_sbc" -> op_sbc(m, mode)
          [] func = "op_cmp" -> op_cmp(m, mode)
          [] func = "op_lax" -> op_lax(m, mode)
          [] func = "op_las" -> op_las(m, mode)
          [] func = "op_bpl" -> branch(m, ~c.flag_n)
          [] func = "op_bmi" -> branch(m, c.flag_n)
          [] func = "op_bvc" -> branch(m, ~c.flag_v)
          [] func = "op_bvs" -> branch(m, c.flag_v)
          [] func = "op_bcc" -> branch(m, ~c.flag_c)
          [] func = "op_bcs" -> branch(m, c.flag_c)
          [] func = "op_bne" -> branch(m, ~c.flag_z)
          [] func = "op_beq" -> branch(m, c.flag_z)
          [] func = "op_sty" -> put_operand(m, mode, c.y)
          [] func = "op_sax" -> put_operand(m, mode, BitAnd(c.a, c.x))
          [] func = "op_asl" -> op_asl(m, mode)
          [] func = "op_rol" -> op_rol(m, mode)
          [] func = "op_lsr" -> op_lsr(m, mode)
          [] func = "op_ror" -> op_ror(m, mode)
          [] func = "op_inc" -> op_inc(m, mode)
          [] func = "op_dec" -> op_dec(m, mode)
          [] func = "op_slo" -> op_slo(m, mode)
          [] func = "op_rla" -> op_rla(m, mode)
          [] func = "op_sre" -> op_sre(m, mode)
          [] func = "op_rra" -> op_rra(m, mode)
          [] func = "op_dcp" -> op_dcp(m, mode)
          [] func = "op_isc" -> op_isc(m, mode)
          [] func = "op_sha" -> op_sha(m, mode)
          [] func = "op_tas" -> op_tas(m, mode)
          [] func = "op_shx" -> sh_store(m, mode, c.x, c.y)
          [] func = "op_shy" -> sh_store(m, mode, c.y, c.x)
          [] func = "op_sta" -> put_operand(m, mode, c.a)
          [] func = "op_stx" -> put_operand(m, mode, c.x)
          [] func = "op_txs" -> [m EXCEPT !.cpu.sp = c.x]
          [] func = "op_tsx" ->
               [m EXCEPT !.cpu = calc_flags_zn([@ EXCEPT !.x = c.sp], c.sp)]
          [] func = "op_inx" ->
               [m EXCEPT !.cpu = calc_flags_zn([@ EXCEPT !.x = U8(c.x + 1)],
                                               U8(c.x + 1))]
          [] func = "op_dex" ->
               [m EXCEPT !.cpu = calc_flags_zn([@ EXCEPT !.x = U8(c.x - 1)],
                                               U8(c.x - 1))]

\* cpu6502_init on a machine whose global cpu is NULL: calloc clears every
\* field; the CPU is freed again when the reset vector reads 0xFFFF
cpu6502_init(m) ==
    LET fresh ==
            [ a |-> 0, x |-> 0, y |-> 0, sp |-> 253, pc |-> 0, status |-> 0,
              flag_c |-> FALSE, flag_z |-> FALSE, flag_i |-> FALSE,
              flag_d |-> FALSE, flag_v |-> FALSE, flag_n |-> FALSE,
              effective_addr |-> 0, current_opcode |-> 0,
              penalty_opcode |-> 0, penalty_address |-> 0, cycles |-> 0,
              halted |-> FALSE ]
    IN  Let(read_word([m EXCEPT !.cpu = fresh], RESET_VECTOR), LAMBDA vector :
            IF vector.ret = 65535
            THEN [m |-> [vector.m EXCEPT !.cpu = NoDevice], ret |-> 1]
            ELSE [m |-> [vector.m EXCEPT !.cpu.pc = vector.ret], ret |-> 0])

\* A reset that leaves a halted CPU halted.
cpu6502_reset_keeps_halted(m) ==
    Let(read_word(m, RESET_VECTOR), LAMBDA vector :
        [ m   |-> [vector.m EXCEPT
                      !.cpu.pc = vector.ret, !.cpu.sp = 253,
                      !.cpu.a = 0, !.cpu.x = 0, !.cpu.y = 0,
                      !.cpu.flag_c = FALSE, !.cpu.flag_z = FALSE,
                      !.cpu.flag_i = FALSE, !.cpu.flag_d = FALSE,
                      !.cpu.flag_v = FALSE, !.cpu.flag_n = FALSE],
          ret |-> 7 ])

\* cpu6502_reset
cpu6502_reset(m) ==
    Let(read_word(m, RESET_VECTOR), LAMBDA vector :
        [ m   |-> [vector.m EXCEPT
                      !.cpu.pc = vector.ret, !.cpu.sp = 253,
                      !.cpu.a = 0, !.cpu.x = 0, !.cpu.y = 0,
                      !.cpu.flag_c = FALSE, !.cpu.flag_z = FALSE,
                      !.cpu.flag_i = FALSE, !.cpu.flag_d = FALSE,
                      !.cpu.flag_v = FALSE, !.cpu.flag_n = FALSE,
                      !.cpu.halted = FALSE],
          ret |-> 7 ])

\* cpu6502_nmi
cpu6502_nmi(m) ==
    Let(read_word(
            [push8(push16(m, m.cpu.pc), cpu6502_get_status(m.cpu))
                EXCEPT !.cpu.flag_i = TRUE],
            NMI_VECTOR), LAMBDA vector :
        [m |-> [vector.m EXCEPT !.cpu.pc = vector.ret], ret |-> 7])

\* An IRQ that is taken whatever the I flag.
cpu6502_irq_unmasked(m) ==
    Let(read_word(
            [push8(push16(m, m.cpu.pc), cpu6502_get_status(m.cpu))
                EXCEPT !.cpu.flag_i = TRUE],
            IRQ_VECTOR), LAMBDA vector :
        [m |-> [vector.m EXCEPT !.cpu.pc = vector.ret], ret |-> 7])

\* cpu6502_irq
cpu6502_irq(m) ==
    IF ~m.cpu.flag_i
    THEN Let(read_word(
                 [push8(push16(m, m.cpu.pc), cpu6502_get_status(m.cpu))
                     EXCEPT !.cpu.flag_i = TRUE],
                 IRQ_VECTOR), LAMBDA vector :
             [m |-> [vector.m EXCEPT !.cpu.pc = vector.ret], ret |-> 7])
    ELSE [m |-> m, ret |-> 0]

\* A step that charges the page-crossing cycle whatever the opcode.
cpu6502_step_penalty_for_all(m) ==
    IF m.cpu.halted THEN [m |-> m, ret |-> 0]
    ELSE
        Let(bus_read_memory(m, m.cpu.pc), LAMBDA fetch :
        Let(opcode_table[fetch.ret], LAMBDA opcode :
        Let(opcode_func(
                addr_mode([fetch.m EXCEPT !.cpu.pc = U16(@ + 1),
                                          !.cpu.current_opcode = fetch.ret,
                                          !.cpu.penalty_opcode = 0,
                                          !.cpu.penalty_address = 0,
                                          !.cpu.cycles = opcode.cycles],
                          opcode.addr_mode),
                opcode.opcode_func, opcode.addr_mode), LAMBDA executed :
        Let(IF executed.cpu.penalty_address # 0
            THEN [executed EXCEPT !.cpu.cycles = @ + 1] ELSE executed,
            LAMBDA done :
            [m |-> done, ret |-> done.cpu.cycles]))))

\* cpu6502_step; every entry of opcode_table has both functions, and
\* waiting for the clock changes nothing
cpu6502_step(m) ==
    IF m.cpu.halted THEN [m |-> m, ret |-> 0]
    ELSE
        Let(bus_read_memory(m, m.cpu.pc), LAMBDA fetch :
        Let(opcode_table[fetch.ret], LAMBDA opcode :
        Let(opcode_func(
                addr_mode([fetch.m EXCEPT !.cpu.pc = U16(@ + 1),
                                          !.cpu.current_opcode = fetch.ret,
                                          !.cpu.penalty_opcode = 0,
                                          !.cpu.penalty_address = 0,
                                          !.cpu.cycles = opcode.cycles],
                          opcode.addr_mode),
                opcode.opcode_func, opcode.addr_mode), LAMBDA executed :
        Let(IF executed.cpu.penalty_opcode # 0
               /\ executed.cpu.penalty_address # 0
            THEN [executed EXCEPT !.cpu.cycles = @ + 1] ELSE executed,
            LAMBDA done :
            [m |-> done, ret |-> done.cpu.cycles]))))

-----------------------------------------------------------------------------
(* Specification SpecAcia: one ACIA driven directly through its API, as    *)
(* the monitor (src/main.c) and the bus do.                                *)

\* Bounds of the exploration
MaxTxWrites == 2    \* data_tx writes explored per run
MaxRxInputs == 1    \* acia_provide_input calls explored per run
TxFreeSlots == 0    \* free slots left in the TX ring by the long start

ControlValues == {0, 1, 2, 3}                \* ENABLE_TX, ENABLE_RX combinations
\* The k-th explored write to data_tx sends its own letter ('B', 'C', ...),
\* so that any reordering, loss or duplication shows in the output.
TxBytes(k)    == {66 + k}
RxInputs      == { <<72>>, <<72, 105>> }     \* "H", "Hi"

\* n successive writes of byte b to data_tx.  A write with the transmitter
\* off changes nothing (acia_write_data_tx), so such a run is the identity;
\* otherwise the first half of the writes is applied, then the second.
RECURSIVE acia_write_n(_, _, _)
acia_write_n(a, b, n) ==
    IF n = 0 \/ ~Test(a.control_reg, ACIA_CONTROL_ENABLE_TX) THEN a
    ELSE IF n = 1 THEN acia_write(a, ACIA_START_ADDRESS + ACIA_REG_DATA_TX, b)
    ELSE acia_write_n(acia_write_n(a, b, n \div 2), b, n - (n \div 2))

\* The ring holds SIZE - 1 bytes.  TxPrefill writes after enabling the
\* transmitter leave TxFreeSlots of them free.
TxPrefill == ACIA_TX_BUFFER_SIZE - 1 - TxFreeSlots

AciaObs0 ==
    [ op |-> "init", ret |-> 0,
      n_tx_start    |-> 0,      \* writes to data_tx made before the start
      n_tx_writes   |-> 0,      \* writes to data_tx, those included
      n_tx_disabled |-> 0,      \* ... made while ENABLE_TX was clear
      n_tx_full     |-> 0,      \* ... made while enabled and the ring was full
      tx_enabled    |-> <<>>,   \* the bytes written while ENABLE_TX was set
      tx_enqueued   |-> <<>>,   \* ... and the ring had room
      n_rx_inputs   |-> 0,
      n_rx_reads    |-> 0,      \* data_rx reads counted by SpecAciaRx
      rx_queue      |-> <<>>,   \* the bytes supplied while the RX ring held
                                \* fewer than 255 unread bytes, less those
                                \* since taken by data_rx reads
      rx_input      |-> <<>>,   \* the bytes of the last acia_provide_input
      reset_seen    |-> FALSE,  \* acia_reset has been called
      overrun       |-> FALSE,  \* OVERRUN has been set by a data_tx write or
                                \* by acia_provide_input, and neither a control
                                \* write nor acia_reset has followed
      tx_only       |-> TRUE ]  \* only control writes, data_tx writes and
                                \* acia_process_tx have been called

Repeat(b, n) == [i \in 1..n |-> b]

\* Either a fresh ACIA, or the ACIA after the host has enabled the
\* transmitter and written TxPrefill bytes 'A' without polling process_tx.
InitAcia ==
    /\ \/ /\ acia = acia_init
          /\ obs = AciaObs0
       \/ /\ acia = acia_write_n(
                       acia_write(acia_init,
                                  ACIA_START_ADDRESS + ACIA_REG_CONTROL,
                                  ACIA_CONTROL_ENABLE_TX),
                       65, TxPrefill)
          /\ obs = [AciaObs0 EXCEPT !.n_tx_start  = TxPrefill,
                                    !.n_tx_writes = TxPrefill,
                                    !.tx_enabled  = Repeat(65, TxPrefill),
                                    !.tx_enqueued = Repeat(65, TxPrefill)]
    /\ out = <<>>
    /\ cpu = NoDevice /\ bus = NoDevice /\ memory = <<>>
    /\ via = NoDevice /\ tia = NoDevice /\ via6522 = NoDevice /\ host = NoDevice

AciaRest == <<cpu, bus, memory, via, tia, via6522, host>>

AciaReset ==
    /\ acia' = acia_reset(acia)
    /\ obs' = [obs EXCEPT !.op = "reset", !.ret = 0, !.reset_seen = TRUE,
                          !.overrun = FALSE, !.tx_only = FALSE,
                          !.rx_queue = <<>>]
    /\ UNCHANGED <<out, AciaRest>>

AciaWriteControl ==
    \E data \in ControlValues :
        /\ acia' = acia_write(acia, ACIA_START_ADDRESS + ACIA_REG_CONTROL, data)
        /\ obs' = [obs EXCEPT !.op = "write_control", !.ret = 0,
                              !.overrun = FALSE]
        /\ UNCHANGED <<out, AciaRest>>

AciaWriteDataTx ==
    \E data \in TxBytes(obs.n_tx_writes - obs.n_tx_start) :
        /\ obs.n_tx_writes - obs.n_tx_start < MaxTxWrites
        /\ acia' = acia_write(acia, ACIA_START_ADDRESS + ACIA_REG_DATA_TX, data)
        /\ LET enabled == Test(acia.control_reg, ACIA_CONTROL_ENABLE_TX)
               full    == (acia.tx_head + 1) % ACIA_TX_BUFFER_SIZE = acia.tx_tail
           IN  obs' = [obs EXCEPT
                   !.op = "write_data_tx", !.ret = 0,
                   !.n_tx_writes   = @ + 1,
                   !.n_tx_disabled = IF enabled THEN @ ELSE @ + 1,
                   !.n_tx_full     = IF enabled /\ full THEN @ + 1 ELSE @,
                   !.overrun       = @ \/ (enabled /\ full),
                   !.tx_enabled    = IF enabled THEN Append(@, data) ELSE @,
                   !.tx_enqueued   = IF enabled /\ ~full THEN Append(@, data) ELSE @]
        /\ UNCHANGED <<out, AciaRest>>

AciaReadStatus ==
    /\ LET r == acia_read(acia, ACIA_START_ADDRESS + ACIA_REG_STATUS)
       IN  /\ acia' = r.m
           /\ obs' = [obs EXCEPT !.op = "read_status", !.ret = r.ret,
                                 !.tx_only = FALSE]
    /\ UNCHANGED <<out, AciaRest>>

AciaReadDataRx ==
    /\ LET r == acia_read(acia, ACIA_START_ADDRESS + ACIA_REG_DATA_RX)
       IN  /\ acia' = r.m
           /\ obs' = [obs EXCEPT !.op = "read_data_rx", !.ret = r.ret,
                                 !.tx_only = FALSE,
                                 !.rx_queue = IF acia.rx_ready /\ @ # <<>>
                                              THEN Tail(@) ELSE @]
    /\ UNCHANGED <<out, AciaRest>>

AciaProcessTx ==
    /\ LET r == acia_process_tx(acia, out)
       IN  /\ acia' = r.a
           /\ out' = r.out
    /\ obs' = [obs EXCEPT !.op = "process_tx", !.ret = 0]
    /\ UNCHANGED AciaRest

\* acia_provide_input breaks out of its loop on a full ring exactly when
\* the free slots of the ring are fewer than the bytes supplied.
RxPending(a) == (a.rx_head - a.rx_tail + ACIA_RX_BUFFER_SIZE) % ACIA_RX_BUFFER_SIZE
RxOverflows(a, data) == Len(data) > ACIA_RX_BUFFER_SIZE - 1 - RxPending(a)

\* The bytes of data that find fewer than ACIA_RX_BUFFER_SIZE - 1 unread
\* bytes ahead of them in a queue.
RxAccepted(queue, data) ==
    LET room == ACIA_RX_BUFFER_SIZE - 1 - Len(queue)
    IN  SubSeq(data, 1, IF Len(data) < room THEN Len(data) ELSE room)

\* One acia_provide_input call with the string data
AciaProvide(data) ==
    /\ acia' = acia_provide_input(acia, data)
    /\ obs' = [obs EXCEPT !.op = "provide_input", !.ret = 0,
                          !.n_rx_inputs = @ + 1, !.tx_only = FALSE,
                          !.overrun = @ \/ RxOverflows(acia, data),
                          !.rx_input = data,
                          !.rx_queue = @ \o RxAccepted(@, data)]
    /\ UNCHANGED <<out, AciaRest>>

AciaProvideInput ==
    \E data \in RxInputs :
        /\ obs.n_rx_inputs < MaxRxInputs
        /\ AciaProvide(data)

NextAcia ==
    \/ AciaReset
    \/ AciaWriteControl
    \/ AciaWriteDataTx
    \/ AciaReadStatus
    \/ AciaReadDataRx
    \/ AciaProcessTx
    \/ AciaProvideInput

SpecAcia == InitAcia /\ [][NextAcia]_vars

RxEnabled == Test(acia.control_reg, ACIA_CONTROL_ENABLE_RX)
TxEnabled == Test(acia.control_reg, ACIA_CONTROL_ENABLE_TX)
RxEmpty   == acia.rx_head = acia.rx_tail
TxEmpty   == acia.tx_head = acia.tx_tail

\* C5 as stated: after every operation rx_ready holds exactly when the RX
\* ring is non-empty (rx_head # rx_tail).
C5_RxReadyIffNonEmpty == acia.rx_ready <=> ~RxEmpty

\* C5, amended: rx_ready is raised only over a non-empty RX ring, and while
\* ENABLE_RX is set in the control register rx_ready holds exactly when the
\* ring is non-empty.  (A control write that clears ENABLE_RX lowers
\* rx_ready over pending bytes.)
C5_RxReadyWhileEnabled ==
    /\ acia.rx_ready => ~RxEmpty
    /\ RxEnabled => (acia.rx_ready <=> ~RxEmpty)

\* The receiver is enabled, a data_rx read has just taken a byte and
\* another is still pending.
C5_Witness ==
    /\ obs.op = "read_data_rx" /\ obs.ret = 72
    /\ RxEnabled /\ acia.rx_ready /\ ~RxEmpty

\* C6 as stated: after every operation tx_ready holds exactly when the TX
\* ring is empty (tx_head = tx_tail).
C6_TxReadyIffEmpty == acia.tx_ready <=> TxEmpty

\* C6, amended: tx_ready is raised only over an empty TX ring, and while
\* ENABLE_TX is set in the control register tx_ready holds exactly when the
\* ring is empty.  (A control write that clears ENABLE_TX lowers tx_ready
\* over an empty ring.)
C6_TxReadyWhileEnabled ==
    /\ acia.tx_ready => TxEmpty
    /\ TxEnabled => (acia.tx_ready <=> TxEmpty)

\* The transmitter is enabled and acia_process_tx has just drained bytes
\* written to data_tx.
C6_Witness ==
    /\ obs.op = "process_tx" /\ TxEnabled
    /\ acia.tx_ready /\ TxEmpty /\ Len(out) > 0

\* C7 as stated: after control writes, data_tx writes and acia_process_tx
\* calls that leave the TX ring empty, the bytes emitted are the bytes
\* written while the transmitter was enabled, in write order, and their
\* number is the number of data_tx writes minus those made while disabled.
C7_EmittedAllEnabledWrites ==
    (obs.tx_only /\ TxEmpty) =>
        /\ out = obs.tx_enabled
        /\ Len(out) = obs.n_tx_writes - obs.n_tx_disabled

\* C7, amended: as long as acia_reset has not been called, whenever the TX
\* ring is empty the bytes emitted are the bytes written while the
\* transmitter was enabled and the ring had a free slot, in write order;
\* their number is the number of data_tx writes minus those made while
\* disabled minus those made while the ring was full (ACIA_TX_BUFFER_SIZE
\* - 1 bytes pending), which are dropped.
C7_EmittedAllEnqueuedWrites ==
    (~obs.reset_seen /\ TxEmpty) =>
        /\ out = obs.tx_enqueued
        /\ Len(out) = obs.n_tx_writes - obs.n_tx_disabled - obs.n_tx_full

\* A run of control writes, data_tx writes and acia_process_tx calls in
\* which one write was dropped while disabled, one was dropped on a full
\* ring, and the ring has been drained.
C7_Witness ==
    /\ obs.tx_only /\ obs.op = "process_tx" /\ TxEmpty
    /\ obs.n_tx_disabled > 0 /\ obs.n_tx_full > 0
    /\ Len(out) = ACIA_TX_BUFFER_SIZE - 1

\* C23: once a data_tx write to a full TX ring or an overflowing
\* acia_provide_input has set OVERRUN, every read of the status register
\* reports the OVERRUN bit (value 4) as 1 until the next write to the
\* control register, after which it reads as 0.
C23_OverrunSticky ==
    obs.op = "read_status" =>
        (Test(obs.ret, ACIA_STATUS_OVERRUN) <=> obs.overrun)

\* The OVERRUN bit is in status_reg whenever it should be reported.
C23_OverrunLatched == obs.overrun => Test(acia.status_reg, ACIA_STATUS_OVERRUN)

\* The status register is read after a data_tx write found the TX ring
\* full, with no control write or reset in between.
C23_Witness ==
    /\ obs.op = "read_status" /\ obs.overrun /\ obs.n_tx_full > 0
    /\ Test(acia.status_reg, ACIA_STATUS_OVERRUN)

-----------------------------------------------------------------------------
(* Specification SpecAciaRx: the receive path of one ACIA, started with an *)
(* empty RX ring, with a nearly full one, and with one whose indices are   *)
(* about to wrap.                                                          *)

MaxRxProvides == 2      \* acia_provide_input calls explored per run
MaxRxReads    == 3      \* data_rx reads explored per run
RxFreeSlots   == 2      \* free slots left in the RX ring by the long start
RxWrapSlots   == 2      \* unread bytes left at the top of the ring by the
                        \* wrapping start

\* "H", "Hi", "OK!" and two bytes above 0x7F
RxLongInputs == RxInputs \cup { <<79, 75, 33>>, <<200, 129>> }

\* The i-th byte of the prefill: every value of 1..255 in turn
RxFill(n) == [i \in 1..n |-> 1 + ((i - 1) % 255)]

\* n successive reads of data_rx (each is the identity once rx_ready is off)
RECURSIVE acia_read_n(_, _)
acia_read_n(a, n) ==
    IF n = 0 \/ ~a.rx_ready THEN a
    ELSE IF n = 1 THEN acia_read(a, ACIA_START_ADDRESS + ACIA_REG_DATA_RX).m
    ELSE acia_read_n(acia_read_n(a, n \div 2), n - (n \div 2))

\* The bytes lo..hi of RxFill supplied by one acia_provide_input call each
RECURSIVE acia_provide_each(_, _, _)
acia_provide_each(a, lo, hi) ==
    IF a.rx_head < 0 \/ lo > hi THEN a
    ELSE IF lo = hi THEN acia_provide_input(a, <<1 + ((lo - 1) % 255)>>)
    ELSE acia_provide_each(acia_provide_each(a, lo, (lo + hi) \div 2),
                           (lo + hi) \div 2 + 1, hi)

\* <<bytes supplied, bytes then read>> by the host before the start
RxStarts ==
    { <<0, 0>>,
      <<ACIA_RX_BUFFER_SIZE - 1 - RxFreeSlots, 0>>,
      <<ACIA_RX_BUFFER_SIZE - 1, ACIA_RX_BUFFER_SIZE - 1 - RxWrapSlots>> }

InitAciaRx ==
    /\ \E start \in RxStarts :
          /\ acia = acia_read_n(
                        acia_provide_each(
                            acia_write(acia_init,
                                       ACIA_START_ADDRESS + ACIA_REG_CONTROL,
                                       ACIA_CONTROL_ENABLE_RX),
                            1, start[1]),
                        start[2])
          /\ obs = [AciaObs0 EXCEPT
                       !.tx_only = FALSE,
                       !.rx_queue = SubSeq(RxFill(start[1]), start[2] + 1, start[1])]
    /\ out = <<>>
    /\ cpu = NoDevice /\ bus = NoDevice /\ memory = <<>>
    /\ via = NoDevice /\ tia = NoDevice /\ via6522 = NoDevice /\ host = NoDevice

AciaRxProvideInput ==
    \E data \in RxLongInputs :
        /\ obs.n_rx_inputs < MaxRxProvides
        /\ AciaProvide(data)

AciaRxReadData ==
    /\ obs.n_rx_reads < MaxRxReads
    /\ LET r == acia_read(acia, ACIA_START_ADDRESS + ACIA_REG_DATA_RX)
       IN  /\ acia' = r.m
           /\ obs' = [obs EXCEPT !.op = "read_data_rx", !.ret = r.ret,
                                 !.n_rx_reads = @ + 1,
                                 !.rx_queue = IF acia.rx_ready /\ @ # <<>>
                                              THEN Tail(@) ELSE @]
    /\ UNCHANGED <<out, AciaRest>>

NextAciaRx ==
    \/ AciaWriteControl
    \/ AciaReadStatus
    \/ AciaRxReadData
    \/ AciaRxProvideInput

SpecAciaRx == InitAciaRx /\ [][NextAciaRx]_vars

\* The unread bytes of the RX ring, oldest first
RxRing(a) ==
    [i \in 1..RxPending(a) |-> a.rx_buffer[(a.rx_tail + i - 1) % ACIA_RX_BUFFER_SIZE]]

\* C24: with RX enabled, the bytes supplied by acia_provide_input come back
\* from successive data_rx reads in the order supplied, each read advancing
\* rx_tail by one (around the ring); the read that takes the last byte
\* clears RX_READY in the status register, and no earlier read does; a
\* data_rx read while RX_READY is clear returns 0 and changes no ACIA state.
C24_RxFifo ==
    [][ /\ (RxEnabled' /\ obs'.rx_queue # <<>>) => acia'.rx_ready
        /\ obs'.op = "read_data_rx" =>
              IF acia.rx_ready
              THEN RxEnabled =>
                     /\ obs.rx_queue # <<>>
                     /\ obs'.ret = Head(obs.rx_queue)
                     /\ obs'.rx_queue = Tail(obs.rx_queue)
                     /\ acia'.rx_tail = (acia.rx_tail + 1) % ACIA_RX_BUFFER_SIZE
                     /\ acia'.rx_head = acia.rx_head
                     /\ Test(acia_read_status(acia'), ACIA_STATUS_RX_READY)
                            <=> Len(obs.rx_queue) > 1
                     /\ Test(acia'.status_reg, ACIA_STATUS_RX_READY)
                            <=> Len(obs.rx_queue) > 1
              ELSE obs'.ret = 0 /\ acia' = acia
      ]_vars

\* "Hi" was supplied to an enabled receiver; the second read has returned
\* 'i' and emptied the ring, and RX_READY is clear.
C24_Witness ==
    /\ obs.op = "read_data_rx" /\ obs.ret = 105 /\ obs.n_rx_reads = 2
    /\ obs.rx_input = <<72, 105>> /\ obs.rx_queue = <<>>
    /\ RxEnabled /\ ~acia.rx_ready
    /\ ~Test(acia_read_status(acia), ACIA_STATUS_RX_READY)

RxIndicesInRange(a) ==
    /\ a.rx_head \in 0..(ACIA_RX_BUFFER_SIZE - 1)
    /\ a.rx_tail \in 0..(ACIA_RX_BUFFER_SIZE - 1)

\* C25: acia_provide_input appends the given bytes in order to the unread
\* bytes of the RX ring until the ring holds 255 of them; if bytes remain
\* it then sets OVERRUN and discards them; the unread bytes already in the
\* ring and rx_tail are left as they were, and rx_head and rx_tail stay in
\* 0..255 throughout.
C25_ProvideInput ==
    /\ RxIndicesInRange(acia)
    /\ [][ /\ RxIndicesInRange(acia')
           /\ obs'.op = "provide_input" =>
                 LET data  == obs'.rx_input
                     room  == ACIA_RX_BUFFER_SIZE - 1 - RxPending(acia)
                     taken == IF Len(data) < room THEN Len(data) ELSE room
                 IN  /\ RxRing(acia') = RxRing(acia) \o SubSeq(data, 1, taken)
                     /\ acia'.rx_tail = acia.rx_tail
                     /\ RxPending(acia') <= ACIA_RX_BUFFER_SIZE - 1
                     /\ Test(acia'.status_reg, ACIA_STATUS_OVERRUN)
                            <=> \/ Test(acia.status_reg, ACIA_STATUS_OVERRUN)
                                \/ Len(data) > room
         ]_vars

\* "OK!" was supplied to a ring with two free slots: 'O' and 'K' are the
\* last of 255 unread bytes, '!' was discarded and OVERRUN is set.
C25_Witness ==
    /\ obs.op = "provide_input" /\ obs.rx_input = <<79, 75, 33>>
    /\ RxPending(acia) = ACIA_RX_BUFFER_SIZE - 1
    /\ RxRing(acia)[ACIA_RX_BUFFER_SIZE - 2] = 79
    /\ RxRing(acia)[ACIA_RX_BUFFER_SIZE - 1] = 75
    /\ Test(acia.status_reg, ACIA_STATUS_OVERRUN)

-----------------------------------------------------------------------------
(* Specification SpecTiaFrame: a TIA fresh from tia_init that is only      *)
(* clocked, as the frame loop of src/tia/main.c does, with no register     *)
(* write.                                                                  *)

CyclesPerFrame == TIA_CYCLES_PER_SCANLINE * TIA_SCANLINES_PER_FRAME

ExtraCycles == 300      \* cycles explored beyond the end of the first frame

InitTiaFrame ==
    /\ tia = tia_init
    /\ obs = [ op |-> "init",
               n_cycles |-> 0,      \* tia_cycle calls made
               n_raised |-> 0 ]     \* calls that assigned frame_done = true
    /\ out = <<>>
    /\ cpu = NoDevice /\ bus = NoDevice /\ memory = <<>>
    /\ acia = NoDevice /\ via = NoDevice /\ via6522 = NoDevice /\ host = NoDevice

TiaFrameCycle ==
    /\ obs.n_cycles < CyclesPerFrame + ExtraCycles
    /\ tia' = tia_cycle(tia)
    /\ obs' = [obs EXCEPT
                 !.op = "cycle",
                 !.n_cycles = @ + 1,
                 !.n_raised = IF tia.color_clock + 1 >= TIA_CYCLES_PER_SCANLINE
                                 /\ tia.scanline + 1 >= TIA_SCANLINES_PER_FRAME
                              THEN @ + 1 ELSE @]
    /\ UNCHANGED <<cpu, bus, memory, acia, via, via6522, host, out>>

NextTiaFrame == TiaFrameCycle

SpecTiaFrame == InitTiaFrame /\ [][NextTiaFrame]_vars

\* C9: from (color_clock, scanline) = (0, 0) with frame_done clear and no
\* register write, the beam after n tia_cycle calls is at clock n mod 228
\* of line n div 228; frame_done stays clear and frame_count unchanged
\* during the first 228 * 262 - 1 calls, and the call number 228 * 262
\* raises frame_done -- the only call to do so --, increments frame_count
\* by one and returns the beam to (0, 0).
C9_FrameAfterExactly59736Cycles ==
    /\ obs.n_cycles <= CyclesPerFrame =>
          /\ tia.color_clock = obs.n_cycles % TIA_CYCLES_PER_SCANLINE
          /\ tia.scanline = (obs.n_cycles \div TIA_CYCLES_PER_SCANLINE)
                                % TIA_SCANLINES_PER_FRAME
    /\ obs.n_cycles < CyclesPerFrame =>
          ~tia.frame_done /\ tia.frame_count = 0 /\ obs.n_raised = 0
    /\ obs.n_cycles = CyclesPerFrame =>
          /\ tia.frame_done /\ tia.frame_count = 1 /\ obs.n_raised = 1
          /\ tia.color_clock = 0 /\ tia.scanline = 0

\* The state right after the call that ends the first frame.
C9_Witness ==
    /\ obs.op = "cycle" /\ obs.n_cycles = CyclesPerFrame
    /\ tia.frame_done /\ tia.frame_count = 1

-----------------------------------------------------------------------------
(* Specification SpecTia: tia_cycle interleaved with register writes.  The *)
(* run starts at a beam position an undisturbed TIA passes through, chosen *)
(* next to the end of a line or of the frame.                              *)

MaxTiaOps == 5          \* tia_cycle and tia_write calls explored per run

\* n successive tia_cycle calls, first half then second half
RECURSIVE tia_cycle_n(_, _)
tia_cycle_n(t, n) ==
    IF n = 0 \/ t.color_clock < 0 THEN t
    ELSE IF n = 1 THEN tia_cycle(t)
    ELSE tia_cycle_n(tia_cycle_n(t, n \div 2), n - (n \div 2))

TiaStartCycles == { 0, TIA_CYCLES_PER_SCANLINE - 2, CyclesPerFrame - 3 }
TiaWriteRegs   == { TIA_REG_RSYNC, TIA_REG_RESP0, TIA_REG_RESP1,
                    TIA_REG_HMOVE, TIA_REG_HMP0, TIA_REG_VSYNC }
TiaWriteData   == { 0, 15, 130 }     \* 0x0F: nibble -1; 0x82: VSYNC bit, nibble 2

InitTia ==
    /\ \E n \in TiaStartCycles : tia = tia_cycle_n(tia_init, n)
    /\ obs = [ op |-> "init", n_ops |-> 0, n_writes |-> 0 ]
    /\ out = <<>>
    /\ cpu = NoDevice /\ bus = NoDevice /\ memory = <<>>
    /\ acia = NoDevice /\ via = NoDevice /\ via6522 = NoDevice /\ host = NoDevice

TiaRest == <<cpu, bus, memory, acia, via, via6522, host, out>>

TiaCycle ==
    /\ obs.n_ops < MaxTiaOps
    /\ tia' = tia_cycle(tia)
    /\ obs' = [obs EXCEPT !.op = "cycle", !.n_ops = @ + 1]
    /\ UNCHANGED TiaRest

TiaWrite ==
    \E reg \in TiaWriteRegs, data \in TiaWriteData :
        /\ obs.n_ops < MaxTiaOps
        /\ tia' = tia_write(tia, reg, data)
        /\ obs' = [obs EXCEPT !.op = "write", !.n_ops = @ + 1,
                              !.n_writes = @ + 1]
        /\ UNCHANGED TiaRest

NextTia == TiaCycle \/ TiaWrite

SpecTia == InitTia /\ [][NextTia]_vars

BeamInRange ==
    /\ 0 <= tia.color_clock /\ tia.color_clock < TIA_CYCLES_PER_SCANLINE
    /\ 0 <= tia.scanline /\ tia.scanline < TIA_SCANLINES_PER_FRAME

\* C10: under any interleaving of tia_cycle and tia_write the beam stays
\* in range (0 <= color_clock < 228, 0 <= scanline < 262); frame_done goes
\* from false to true only in a tia_cycle call that takes scanline from
\* its last value to 0; and no call takes frame_done from true to false.
C10_BeamRangeAndFrameDone ==
    /\ []BeamInRange
    /\ [][ /\ (~tia.frame_done /\ tia'.frame_done) =>
                /\ obs'.op = "cycle"
                /\ tia.scanline = TIA_SCANLINES_PER_FRAME - 1
                /\ tia'.scanline = 0
           /\ tia.frame_done => tia'.frame_done ]_vars

\* A frame has been completed in a run that also wrote registers, and the
\* last call was a write made with frame_done raised.
C10_Witness ==
    /\ tia.frame_done /\ obs.op = "write" /\ obs.n_writes > 1
    /\ tia.scanline = 0

-----------------------------------------------------------------------------
(* Specification SpecTiaCollide: tia_cycle interleaved with the register   *)
(* writes that place and shape the players and the playfield, blank the    *)
(* beam and address CXCLR.  The run starts at the first pixel of the       *)
(* frame, at the last visible pixel of the first line, or on the first     *)
(* line below the visible window.                                          *)

MaxCollideOps == 4      \* tia_cycle and tia_write calls explored per run

TiaCollideStarts ==
    { 0, TIA_SCREEN_WIDTH - 1, TIA_SCREEN_HEIGHT * TIA_CYCLES_PER_SCANLINE }

\* <<address, data>>: one-pixel players, playfield bits for x = 0..3 and for
\* x = 76..159, both players placed at the beam, VBLANK and VSYNC raised,
\* CXCLR and its mirror at $6F
TiaCollideWrites ==
    { <<TIA_REG_GRP0, 128>>, <<TIA_REG_GRP1, 128>>,
      <<TIA_REG_PF0, 128>>, <<TIA_REG_PF2, 1>>,
      <<TIA_REG_RESP0, 0>>, <<TIA_REG_RESP1, 0>>,
      <<TIA_REG_VBLANK, 128>>, <<TIA_REG_VSYNC, 2>>,
      <<TIA_REG_CXCLR, 0>>, <<TIA_REG_CXCLR + TIA_REG_COUNT, 0>> }

InitTiaCollide ==
    /\ \E n \in TiaCollideStarts : tia = tia_cycle_n(tia_init, n)
    /\ obs = [ op |-> "init", address |-> 0, n_ops |-> 0 ]
    /\ out = <<>>
    /\ cpu = NoDevice /\ bus = NoDevice /\ memory = <<>>
    /\ acia = NoDevice /\ via = NoDevice /\ via6522 = NoDevice /\ host = NoDevice

TiaCollideCycle ==
    /\ obs.n_ops < MaxCollideOps
    /\ tia' = tia_cycle(tia)
    /\ obs' = [obs EXCEPT !.op = "cycle", !.n_ops = @ + 1]
    /\ UNCHANGED TiaRest

TiaCollideWrite ==
    \E w \in TiaCollideWrites :
        /\ obs.n_ops < MaxCollideOps
        /\ tia' = tia_write(tia, w[1], w[2])
        /\ obs' = [obs EXCEPT !.op = "write", !.address = w[1],
                              !.n_ops = @ + 1]
        /\ UNCHANGED TiaRest

NextTiaCollide == TiaCollideCycle \/ TiaCollideWrite

SpecTiaCollide == InitTiaCollide /\ [][NextTiaCollide]_vars

\* The call in progress is a write to CXCLR or to a mirror of it.
CxclrWrite == obs'.op = "write" /\ obs'.address % TIA_REG_COUNT = TIA_REG_CXCLR

\* The call in progress is a tia_cycle that renders a pixel: neither vsync
\* nor vblank, and the beam inside the visible window.
PixelRendered ==
    /\ obs'.op = "cycle"
    /\ ~tia.vsync /\ ~tia.vblank
    /\ tia.scanline < TIA_SCREEN_HEIGHT /\ tia.color_clock < TIA_SCREEN_WIDTH

\* C29: in every call other than a CXCLR write each collision latch
\* (p0-p1, p0-pf, p1-pf) is true afterwards exactly if it was true before
\* or the call is a tia_cycle that renders a pixel at which both of its
\* constituents are set: a latch once true stays true across tia_cycle
\* calls and register writes, and no latch is set by a tia_cycle that
\* renders no pixel (vsync, vblank or outside the visible window).
C29_LatchesSticky ==
    [][ ~CxclrWrite =>
          LET x  == tia.color_clock
              p0 == get_player_pixel(tia.grp0, tia.p0_x, x)
              p1 == get_player_pixel(tia.grp1, tia.p1_x, x)
              pf == get_playfield_pixel(tia, x)
          IN  /\ tia'.collisions.p0_p1
                    <=> (tia.collisions.p0_p1 \/ (PixelRendered /\ p0 /\ p1))
              /\ tia'.collisions.p0_pf
                    <=> (tia.collisions.p0_pf \/ (PixelRendered /\ p0 /\ pf))
              /\ tia'.collisions.p1_pf
                    <=> (tia.collisions.p1_pf \/ (PixelRendered /\ p1 /\ pf))
      ]_vars

\* The p0-pf latch was set at a pixel and has stayed set through a later
\* tia_cycle at which player 0 is no longer on the beam, while the p0-p1
\* latch has never been set.
C29_Witness ==
    /\ obs.op = "cycle" /\ obs.n_ops = 4
    /\ tia.collisions.p0_pf /\ ~tia.collisions.p0_p1
    /\ ~get_player_pixel(tia.grp0, tia.p0_x, tia.color_clock - 1)

\* C30: a write to CXCLR ($2F) or to any mirror of it leaves every
\* collision latch false.
C30_CxclrClearsLatches ==
    [][ CxclrWrite =>
          /\ ~tia'.collisions.p0_p1
          /\ ~tia'.collisions.p0_pf
          /\ ~tia'.collisions.p1_pf ]_vars

\* A write to CXCLR leaves the collision latches as they were.
C30_CxclrKeepsLatches ==
    [][ CxclrWrite => tia'.collisions = tia.collisions ]_vars

\* Both players were given a pixel at x = 0, the pixel was rendered, and
\* CXCLR has been written with the p0-p1 latch set.
C30_Witness ==
    /\ obs.op = "write" /\ obs.address = TIA_REG_CXCLR /\ obs.n_ops = 4
    /\ tia.grp0 = 128 /\ tia.grp1 = 128 /\ tia.color_clock = 1
    /\ tia.collisions.p0_p1

-----------------------------------------------------------------------------
(* Specification SpecVia6522: the VIA driven through its API, as           *)
(* src/api65/devices/ben_eater_bus.c does.                                 *)

MaxViaOps == 5          \* API calls explored per run

ViaWriteAddresses == { 24576 + VIA_ORB, 24576 + VIA_ORA, 24576 + 3 }  \* $6000, $6001, $6003
ViaWriteValues    == { 0, 32, 64, 65, 72, 128, 160, 192 }
    \* nothing, RS, R/W, 'A', 'H', E, E+RS, E+R/W

InitVia6522 ==
    /\ via6522 = via_6522_create
    /\ obs = [ op |-> "create", address |-> 0, value |-> 0, ret |-> 0,
               n_ops |-> 0 ]
    /\ out = <<>>
    /\ cpu = NoDevice /\ bus = NoDevice /\ memory = <<>>
    /\ acia = NoDevice /\ via = NoDevice /\ tia = NoDevice /\ host = NoDevice

Via6522Rest == <<cpu, bus, memory, acia, via, tia, out, host>>

Via6522Init ==
    /\ obs.n_ops < MaxViaOps
    /\ via6522' = via_6522_init(via6522)
    /\ obs' = [obs EXCEPT !.op = "init", !.n_ops = @ + 1]
    /\ UNCHANGED Via6522Rest

Via6522Reset ==
    /\ obs.n_ops < MaxViaOps
    /\ via6522' = via_6522_reset(via6522)
    /\ obs' = [obs EXCEPT !.op = "reset", !.n_ops = @ + 1]
    /\ UNCHANGED Via6522Rest

Via6522WriteByte ==
    \E address \in ViaWriteAddresses, value \in ViaWriteValues :
        /\ obs.n_ops < MaxViaOps
        /\ via6522' = via_6522_write_byte(via6522, address, value)
        /\ obs' = [obs EXCEPT !.op = "write_byte", !.address = address,
                              !.value = value, !.n_ops = @ + 1]
        /\ UNCHANGED Via6522Rest

Via6522ReadByte ==
    \E address \in ViaWriteAddresses :
        /\ obs.n_ops < MaxViaOps
        /\ via6522' = via6522
        /\ obs' = [obs EXCEPT !.op = "read_byte", !.address = address,
                              !.ret = via_6522_read_byte(via6522, address),
                              !.n_ops = @ + 1]
        /\ UNCHANGED Via6522Rest

Via6522Cycle ==
    /\ obs.n_ops < MaxViaOps
    /\ via6522' = via_6522_cycle(via6522)
    /\ obs' = [obs EXCEPT !.op = "cycle", !.n_ops = @ + 1]
    /\ UNCHANGED Via6522Rest

NextVia6522 ==
    \/ Via6522Init
    \/ Via6522Reset
    \/ Via6522WriteByte
    \/ Via6522ReadByte
    \/ Via6522Cycle

SpecVia6522 == InitVia6522 /\ [][NextVia6522]_vars

\* C8: a call notifies the LCD exactly once if it is a write that takes the
\* E bit of port A from 1 to 0 and leaves R/W at 0, and not at all
\* otherwise: not a write to ORA or ORB that leaves E as it was, not a
\* write to another register, not a cycle call, not init or reset.
C8_OneNotificationPerFallingEdge ==
    [][ LET notified == Len(via6522'.lcd.calls) - Len(via6522.lcd.calls)
            falling  == /\ obs'.op = "write_byte"
                        /\ Test(via6522.ora, VIA_E_BIT)
                        /\ ~Test(via6522'.ora, VIA_E_BIT)
                        /\ ~Test(via6522'.ora, VIA_RW_BIT)
        IN  notified = IF falling THEN 1 ELSE 0 ]_vars

\* A write to ORA has just taken E from 1 to 0 with R/W low, and the LCD
\* has received the byte on port B as data.
C8_Witness ==
    /\ obs.op = "write_byte" /\ obs.address % 16 = VIA_ORA
    /\ obs.value = VIA_RS_BIT
    /\ via6522.lcd.calls = << <<"write_data", 65>> >>

\* C26 on the VIA: a write that takes E from 1 to 0 with R/W low hands the
\* LCD exactly one byte, the ORB of that moment, as a datum when RS is high
\* and as a command when RS is low.
C26_ViaForwardsOrb ==
    [][ ( /\ obs'.op = "write_byte"
          /\ Test(via6522.ora, VIA_E_BIT)
          /\ ~Test(via6522'.ora, VIA_E_BIT)
          /\ ~Test(via6522'.ora, VIA_RW_BIT) )
        => via6522'.lcd.calls =
              Append(via6522.lcd.calls,
                     << IF Test(via6522'.ora, VIA_RS_BIT)
                        THEN "write_data" ELSE "write_command",
                        via6522'.orb >>)
      ]_vars

\* E was raised, $48 written to ORB and E lowered with RS high: the LCD of
\* the VIA has received the one datum $48.
C26_ViaWitness ==
    /\ obs.op = "write_byte" /\ obs.address % 16 = VIA_ORA
    /\ obs.value = VIA_RS_BIT /\ obs.n_ops = 4 /\ via6522.orb = 72
    /\ via6522.lcd.calls = << <<"write_data", 72>> >>

-----------------------------------------------------------------------------
(* Specification SpecBenEaterIo: the Ben Eater I/O ports driven through    *)
(* their API.                                                              *)

MaxIoOps == 4           \* API calls explored per run

IoWriteAddresses == { PORTB_ADDR, PORTA_ADDR, DDRA_ADDR }
IoWriteValues    == { 0, 32, 64, 72, 128, 160 }
    \* nothing, RS, R/W, 'H', E, E+RS
LcdStatusValues  == { 0, 1 }     \* busy flag clear, DDRAM address 0 or 1

InitBenEaterIo ==
    /\ via6522 = ben_eater_io_create
    /\ obs = [ op |-> "create", address |-> 0, value |-> 0, n_ops |-> 0 ]
    /\ out = <<>>
    /\ cpu = NoDevice /\ bus = NoDevice /\ memory = <<>>
    /\ acia = NoDevice /\ via = NoDevice /\ tia = NoDevice /\ host = NoDevice

BenEaterIoInit ==
    /\ obs.n_ops < MaxIoOps
    /\ via6522' = ben_eater_io_init(via6522)
    /\ obs' = [obs EXCEPT !.op = "init", !.n_ops = @ + 1]
    /\ UNCHANGED Via6522Rest

BenEaterIoWriteByte ==
    \E address \in IoWriteAddresses, value \in IoWriteValues,
       status \in LcdStatusValues :
        /\ obs.n_ops < MaxIoOps
        /\ via6522' = ben_eater_io_write_byte(via6522, address, value, status)
        /\ obs' = [obs EXCEPT !.op = "write_byte", !.address = address,
                              !.value = value, !.n_ops = @ + 1]
        /\ UNCHANGED Via6522Rest

BenEaterIoCycle ==
    \E status \in LcdStatusValues :
        /\ obs.n_ops < MaxIoOps
        /\ via6522' = ben_eater_io_cycle(via6522, status)
        /\ obs' = [obs EXCEPT !.op = "cycle", !.n_ops = @ + 1]
        /\ UNCHANGED Via6522Rest

NextBenEaterIo ==
    \/ BenEaterIoInit
    \/ BenEaterIoWriteByte
    \/ BenEaterIoCycle

SpecBenEaterIo == InitBenEaterIo /\ [][NextBenEaterIo]_vars

\* C26: on a falling edge of E with R/W = 0 the LCD is handed exactly one
\* byte, a command when RS = 0 and a datum when RS = 1, and the byte is the
\* port B value at the time of the falling edge; so raising E, writing $48
\* to port B and lowering E with RS = 1 and R/W = 0 delivers the one datum
\* $48.
C26_ForwardsPortB ==
    [][ ( /\ obs'.op = "write_byte"
          /\ Test(via6522.porta, VIA_E_BIT)
          /\ ~Test(via6522'.porta, VIA_E_BIT)
          /\ ~Test(via6522'.porta, VIA_RW_BIT) )
        => via6522'.lcd.calls =
              Append(via6522.lcd.calls,
                     << IF Test(via6522'.porta, VIA_RS_BIT)
                        THEN "write_data" ELSE "write_command",
                        via6522'.portb >>)
      ]_vars

\* E was raised while port B held 0, $48 was then written to port B, and E
\* has been lowered with RS high and R/W low: port B holds $48 and the LCD
\* has received one datum.
C26_Witness ==
    /\ obs.op = "write_byte" /\ obs.address = PORTA_ADDR
    /\ obs.value = VIA_RS_BIT /\ obs.n_ops = 3
    /\ via6522.portb = 72 /\ via6522.latched_data = 0
    /\ Len(via6522.lcd.calls) = 1 /\ via6522.lcd.calls[1][1] = "write_data"

-----------------------------------------------------------------------------
(* Specification SpecViaTick: the bus VIA from via_init under register     *)
(* writes and via_tick calls.                                              *)

MaxViaWrites == 3       \* via_write calls explored per run
MaxViaTicks  == 9       \* via_tick calls explored per run

\* <<register, value>>: T1 loaded with 3 or with 259, T2 with 2, the bytes
\* $A5 and $00 sent, IFR bits 4..6 cleared
ViaTickWrites ==
    { <<VIA_REG_T1CL, 3>>, <<VIA_REG_T1CH, 0>>, <<VIA_REG_T1CH, 1>>,
      <<VIA_REG_T2CL, 2>>, <<VIA_REG_T2CH, 0>>,
      <<VIA_REG_SR, 165>>, <<VIA_REG_SR, 0>>,
      <<VIA_REG_IFR, 112>> }

\* For each of T1, T2 and the shift register: whether it has been started
\* (a T1CH, T2CH or SR write), the value it was started with and the
\* via_tick calls made since the last start.
InitViaTick ==
    /\ via = via_init
    /\ out = <<>>
    /\ obs = [ op |-> "init", reg |-> 0, value |-> 0,
               n_writes |-> 0, n_ticks |-> 0,
               t1 |-> [started |-> FALSE, value |-> 0, ticks |-> 0],
               t2 |-> [started |-> FALSE, value |-> 0, ticks |-> 0],
               sr |-> [started |-> FALSE, value |-> 0, ticks |-> 0] ]
    /\ cpu = NoDevice /\ bus = NoDevice /\ memory = <<>>
    /\ acia = NoDevice /\ tia = NoDevice /\ via6522 = NoDevice /\ host = NoDevice

ViaTickRest == <<cpu, bus, memory, acia, tia, via6522, host>>

ViaWrite ==
    \E w \in ViaTickWrites : \E reg \in {w[1]}, value \in {w[2]} :
        /\ obs.n_writes < MaxViaWrites
        /\ \E r \in { via_write([m |-> via, out |-> out],
                                 VIA_BASE_ADDRESS + reg, value) } :
              /\ via' = r.m
              /\ out' = r.out
              /\ LET started(n) == [started |-> TRUE, value |-> n, ticks |-> 0]
                 IN  obs' = [obs EXCEPT
                        !.op = "write", !.reg = reg, !.value = value,
                        !.n_writes = @ + 1,
                        !.t1 = IF reg = VIA_REG_T1CH THEN started(r.m.t1c) ELSE @,
                        !.t2 = IF reg = VIA_REG_T2CH THEN started(r.m.t2c) ELSE @,
                        !.sr = IF reg = VIA_REG_SR THEN started(value) ELSE @]
        /\ UNCHANGED ViaTickRest

ViaTick ==
    /\ obs.n_ticks < MaxViaTicks
    /\ \E r \in { via_tick([m |-> via, out |-> out]) } :
          /\ via' = r.m
          /\ out' = r.out
    /\ obs' = [obs EXCEPT !.op = "tick", !.n_ticks = @ + 1,
                          !.t1.ticks = @ + 1, !.t2.ticks = @ + 1,
                          !.sr.ticks = @ + 1]
    /\ UNCHANGED ViaTickRest

NextViaTick ==
    \/ ViaWrite
    \/ ViaTick

SpecViaTick == InitViaTick /\ [][NextViaTick]_vars

\* The first seven via_tick calls after a write to SR leave the shift
\* active, tx_ready and IFR bit 4 clear and emit nothing; the eighth ends
\* the shift, raises tx_ready and IFR bit 4 and emits one byte.
C27_ShiftTiming(emitted) ==
    (obs'.op = "tick" /\ obs.sr.started) =>
        /\ obs'.sr.ticks < 8 =>
              /\ via'.shift_active /\ ~via'.sr_tx_ready
              /\ ~Test(via'.ifr, 16) \/ Test(via.ifr, 16)
              /\ out' = out
        /\ obs'.sr.ticks = 8 =>
              /\ ~via'.shift_active /\ via'.sr_tx_ready
              /\ Test(via'.ifr, 16)
              /\ out' = Append(out, emitted)

\* C27: after a write of byte b to SR the shift completes on exactly the
\* eighth subsequent via_tick and not earlier; at that tick the shift
\* becomes inactive, tx_ready is asserted, IFR bit 4 is set, and the byte
\* emitted to the output is b.
C27_ShiftEmitsByte == [][ C27_ShiftTiming(obs.sr.value) ]_vars

\* The same with the byte the eighth tick does emit: b shifted left eight
\* times in eight bits, that is 0.
C27_ShiftEmitsZero == [][ C27_ShiftTiming(0) ]_vars

\* $A5 was written to SR and the eighth via_tick since has ended the shift
\* and emitted a byte.
C27_Witness ==
    /\ obs.op = "tick" /\ obs.sr.started /\ obs.sr.value = 165
    /\ obs.sr.ticks = 8
    /\ ~via.shift_active /\ via.sr_tx_ready /\ Test(via.ifr, 16)
    /\ Len(out) = 1

\* The via_tick in progress leaves the flag as it found it.
C28_FlagKept(flag) == Test(via'.ifr, flag) <=> Test(via.ifr, flag)

\* Timer t (obs.t1 with counter t1c and IFR bit 6, obs.t2 with t2c and bit
\* 5), started with n: the k-th via_tick since leaves the counter at n - k
\* and the flag alone for k < n, sets the flag at the counter's arrival at
\* 0 for k = n, and leaves the counter at 0 and the flag alone for k > n.
C28_Timer(t, counter, flag) ==
    (obs'.op = "tick" /\ t.started /\ t.value > 0) =>
        LET n == t.value
            k == t.ticks + 1
        IN  /\ k < n => counter = n - k /\ C28_FlagKept(flag)
            /\ k = n => counter = 0 /\ Test(via'.ifr, flag)
            /\ k > n => counter = 0 /\ C28_FlagKept(flag)

\* C28: after a write to T1CH has loaded the T1 counter with n > 0, the
\* via_tick that sets IFR bit 6 is exactly the n-th: no earlier tick
\* changes the bit, and once the counter is 0 it stays 0 and no later tick
\* sets the bit until the timer is loaded again; the same for T2 with a
\* T2CH write and IFR bit 5.
C28_TimerFlags ==
    [][ /\ C28_Timer(obs.t1, via'.t1c, 64)
        /\ C28_Timer(obs.t2, via'.t2c, 32) ]_vars

\* T1 was loaded with 3; the third via_tick raised IFR bit 6, a write to
\* IFR cleared it, and a later via_tick has left it clear.
C28_Witness ==
    /\ obs.op = "tick" /\ obs.t1.started /\ obs.t1.value = 3
    /\ obs.t1.ticks > 3 /\ via.t1c = 0 /\ ~Test(via.ifr, 64)
    /\ obs.n_writes = 3

-----------------------------------------------------------------------------
(* Specification SpecBus: reads and writes through the bus of every        *)
(* machine bus_init can build -- with or without TIA and ACIA, with the    *)
(* VIA allocated or not -- over memories of three sizes.                   *)

MaxBusOps == 2          \* bus accesses explored per run

\* The machine of the current state, with an empty access log
Machine ==
    [ cpu |-> cpu, bus |-> bus, memory |-> memory, acia |-> acia,
      via |-> via, tia |-> tia, out |-> out, log |-> << >> ]

\* Both ends of every device range and their neighbours, a stack address,
\* the first and last address
BusAddresses ==
    { 0, 63, 64, 511,
      VIA_BASE_ADDRESS - 1, VIA_BASE_ADDRESS, VIA_END_ADDRESS, VIA_END_ADDRESS + 1,
      ACIA_START_ADDRESS - 1, ACIA_START_ADDRESS, ACIA_START_ADDRESS + 1,
      ACIA_START_ADDRESS + 3, ACIA_END_ADDRESS, ACIA_END_ADDRESS + 1,
      65535 }
BusValues   == { 0, 131 }              \* 0x83
MemorySizes == { 32, 24584, 65536 }    \* below the TIA end, inside the VIA range, all
ProbeImage  == << 170 >>               \* 0xAA, the image loaded at every probed address

\* ProbeImage loaded at each of the addresses below size
RECURSIVE LoadProbes(_, _)
LoadProbes(mem, addresses) ==
    IF addresses = {} THEN mem
    ELSE LET a == CHOOSE x \in addresses : TRUE
         IN  LoadProbes(bus_load_program(mem, ProbeImage, a), addresses \ {a})

InitBus ==
    /\ \E with_acia \in BOOLEAN, with_tia \in BOOLEAN, with_via \in BOOLEAN :
          /\ bus  = bus_init(with_acia, with_tia, with_via)
          /\ acia = IF with_acia THEN acia_init ELSE NoDevice
          /\ tia  = IF with_tia THEN tia_init ELSE NoDevice
          /\ via  = IF with_via THEN via_init ELSE NoDevice
    /\ \E size \in MemorySizes :
          memory = LoadProbes(memory_init(size),
                              {a \in BusAddresses : a < size})
    /\ cpu = NoDevice /\ via6522 = NoDevice /\ host = NoDevice /\ out = <<>>
    /\ obs = [ op |-> "init", address |-> 0, value |-> 0, ret |-> 0,
               target |-> "none", n_ops |-> 0 ]

BusReadMemory ==
    \E address \in BusAddresses :
        /\ obs.n_ops < MaxBusOps
        /\ LET r == bus_read_memory(Machine, address)
           IN  /\ acia' = r.m.acia /\ via' = r.m.via /\ tia' = r.m.tia
               /\ memory' = r.m.memory /\ out' = r.m.out
               /\ obs' = [obs EXCEPT !.op = "read", !.address = address,
                                     !.ret = r.ret,
                                     !.target = bus_read_target(Machine, address),
                                     !.n_ops = @ + 1]
        /\ UNCHANGED <<cpu, bus, via6522, host>>

BusWriteMemory ==
    \E address \in BusAddresses, value \in BusValues :
        /\ obs.n_ops < MaxBusOps
        /\ LET w == bus_write_memory(Machine, address, value)
           IN  /\ acia' = w.acia /\ via' = w.via /\ tia' = w.tia
               /\ memory' = w.memory /\ out' = w.out
               /\ obs' = [obs EXCEPT !.op = "write", !.address = address,
                                     !.value = value,
                                     !.target = bus_write_target(Machine, address),
                                     !.n_ops = @ + 1]
        /\ UNCHANGED <<cpu, bus, via6522, host>>

NextBus == BusReadMemory \/ BusWriteMemory

SpecBus == InitBus /\ [][NextBus]_vars

\* The decode order C4 states, for the machine of the current state
C4_Decode(address) ==
    IF bus.tia /\ address \in 0..63 THEN "tia"
    ELSE IF bus.acia /\ address \in 53248..53263 THEN "acia"
    ELSE IF bus.via /\ address \in 24576..24591 THEN "via"
    ELSE IF address < memory.size THEN "ram"
    ELSE "none"

\* C4: at every address bus_read_memory and bus_write_memory take the
\* branch of the same target, the first match of: TIA $0000-$003F if
\* attached, ACIA $D000-$D00F if attached, VIA $6000-$600F if attached, RAM
\* below the configured size, else unmapped.  When the target is a device,
\* a write leaves RAM as it is, and a read leaves RAM as it is and returns
\* the same byte whatever RAM holds.
C4_SameTargetNeverRam ==
    \A address \in BusAddresses :
        LET target == bus_read_target(Machine, address)
        IN  /\ target = bus_write_target(Machine, address)
            /\ target = C4_Decode(address)
            /\ target \in {"tia", "acia", "via"} =>
                  /\ \A value \in BusValues :
                        bus_write_memory(Machine, address, value).memory = memory
                  /\ bus_read_memory(Machine, address).m.memory = memory
                  /\ bus_read_memory(Machine, address).ret =
                        bus_read_memory(
                            [Machine EXCEPT !.memory = memory_init(memory.size)],
                            address).ret

\* A write has just been routed to the VIA at an address RAM also covers;
\* RAM still holds the loaded byte there.
C4_Witness ==
    /\ obs.op = "write" /\ obs.target = "via" /\ obs.value = 131
    /\ obs.address < memory.size
    /\ memory_read(memory, obs.address) = ProbeImage[1]
    /\ via.reg[VIA_REG_ORB] = 131

\* C21: with RAM smaller than 64 KiB, a bus read of an address at or above
\* the size that no attached device claims returns $FF, and a bus write to
\* such an address leaves RAM, the devices and the CPU as they were.
C21_UnmappedAccess ==
    [][ (/\ memory.size < 65536
         /\ obs'.address >= memory.size
         /\ C4_Decode(obs'.address) = "none")
        => /\ obs'.op = "read" => obs'.ret = 255
           /\ obs'.op = "write" =>
                 UNCHANGED <<cpu, bus, memory, acia, via, tia, via6522, out>>
      ]_vars

\* With 32 bytes of RAM and no ACIA, after a write of $83 the address $D000
\* has been read as $FF.
C21_Witness ==
    /\ memory.size = 32 /\ ~bus.acia
    /\ obs.op = "read" /\ obs.address = ACIA_START_ADDRESS /\ obs.value = 131
    /\ obs.n_ops = 2 /\ obs.ret = 255

-----------------------------------------------------------------------------
(* Specification SpecCpu: the CPU on a 64 KiB machine with the bus VIA and *)
(* no TIA or ACIA, running one of a few short programs while the host      *)
(* calls cpu6502_step, cpu6502_nmi, cpu6502_irq and cpu6502_reset in any   *)
(* order, as the monitor (src/main.c) does.                                *)

MaxCpuSteps == 8        \* cpu6502_step calls explored per run
MaxCpuCalls == 2        \* cpu6502_nmi, cpu6502_irq, cpu6502_reset calls per run

JamOpcodes == { 2, 18, 34, 50, 66, 82, 98, 114, 146, 178, 210, 242 }

ProgramStart == << 0, 2 >>      \* $0200, the reset vector's word
IrqHandler   == << 0, 3 >>      \* $0300, the IRQ/BRK vector's word
NmiHandler   == << 16, 3 >>     \* $0310, the NMI vector's word
HandlerCode  == << 64 >>        \* RTI

\* The programs, each ending in the JAM opcode jam
Programs(jam) ==
    { << 162, 0, 154, 56, 0, 234, jam >>,    \* LDX #0; TXS; SEC; BRK; pad; JAM
      << 162, 1, 154, 248, 0, 234, jam >>,   \* LDX #1; TXS; SED; BRK; pad; JAM
      << 120, 248, 8, 40, 88, jam >>,        \* SEI; SED; PHP; PLP; CLI; JAM
      << 169, 128, 72, 104, 8, jam >>,       \* LDA #$80; PHA; PLA; PHP; JAM
      << jam >> }

Word(w) == w[1] + 256 * w[2]

\* The bytes of the three vectors from NMI_VECTOR up
VectorImage == NmiHandler \o ProgramStart \o IrqHandler

CpuObs0 ==
    [ op |-> "init", ret |-> 0, opcode |-> 0, log |-> << >>,
      before |-> [pc |-> 0, sp |-> 0, flag_i |-> FALSE, halted |-> FALSE],
      n_steps |-> 0, n_calls |-> 0, nmi_with_i |-> FALSE ]

InitCpu ==
    /\ bus = bus_init(FALSE, FALSE, TRUE)
    /\ acia = NoDevice /\ tia = NoDevice /\ via6522 = NoDevice /\ host = NoDevice
    /\ via = via_init /\ out = << >>
    /\ \E jam \in JamOpcodes : \E program \in Programs(jam) :
          memory =
            bus_load_program(
              bus_load_program(
                bus_load_program(
                  bus_load_program(memory_init(65536), VectorImage, NMI_VECTOR),
                  HandlerCode, Word(IrqHandler)),
                HandlerCode, Word(NmiHandler)),
              program, Word(ProgramStart))
    /\ cpu = cpu6502_init([ cpu |-> NoDevice, bus |-> bus, memory |-> memory,
                            acia |-> acia, via |-> via, tia |-> tia,
                            out |-> out, log |-> << >> ]).m.cpu
    /\ obs = CpuObs0

CpuBefore ==
    [pc |-> cpu.pc, sp |-> cpu.sp, flag_i |-> cpu.flag_i, halted |-> cpu.halted]

\* The machine a call leaves becomes the next state
CpuCommit(m) ==
    /\ cpu' = m.cpu /\ memory' = m.memory /\ via' = m.via /\ out' = m.out
    /\ UNCHANGED <<bus, acia, tia, via6522, host>>

CpuStep ==
    /\ obs.n_steps < MaxCpuSteps
    /\ \E fetch \in { bus_read_memory(Machine, cpu.pc) } :
          cpu.halted \/ opcode_table[fetch.ret].opcode_func \in ModelledOps
    /\ \E r \in { cpu6502_step(Machine) } :
          /\ CpuCommit(r.m)
          /\ obs' = [obs EXCEPT !.op = "step", !.ret = r.ret,
                                !.opcode = IF cpu.halted THEN @
                                           ELSE r.m.cpu.current_opcode,
                                !.log = r.m.log, !.before = CpuBefore,
                                !.n_steps = @ + 1]

CpuNmi ==
    /\ obs.n_calls < MaxCpuCalls
    /\ \E r \in { cpu6502_nmi(Machine) } :
          /\ CpuCommit(r.m)
          /\ obs' = [obs EXCEPT !.op = "nmi", !.ret = r.ret, !.log = r.m.log,
                                !.before = CpuBefore, !.n_calls = @ + 1,
                                !.nmi_with_i = @ \/ cpu.flag_i]

CpuIrq ==
    /\ obs.n_calls < MaxCpuCalls
    /\ \E r \in { cpu6502_irq(Machine) } :
          /\ CpuCommit(r.m)
          /\ obs' = [obs EXCEPT !.op = "irq", !.ret = r.ret, !.log = r.m.log,
                                !.before = CpuBefore, !.n_calls = @ + 1]

CpuReset ==
    /\ obs.n_calls < MaxCpuCalls
    /\ \E r \in { cpu6502_reset(Machine) } :
          /\ CpuCommit(r.m)
          /\ obs' = [obs EXCEPT !.op = "reset", !.ret = r.ret, !.log = r.m.log,
                                !.before = CpuBefore, !.n_calls = @ + 1]

NextCpu == CpuStep \/ CpuNmi \/ CpuIrq \/ CpuReset

SpecCpu == InitCpu /\ [][NextCpu]_vars

\* PC, A, X, Y, SP and the six flags
CpuRegisters(c) ==
    << c.pc, c.a, c.x, c.y, c.sp,
       c.flag_c, c.flag_z, c.flag_i, c.flag_d, c.flag_v, c.flag_n >>

IsWrite(access) == access[1] = "W"

\* The bus writes of the call that led to the current state, in order
CpuWrites == SelectSeq(obs.log, IsWrite)

\* The word memory holds at a vector
VectorWord(address) ==
    memory_read(memory, address) + 256 * memory_read(memory, address + 1)

\* C1: a cpu6502_step that executes a JAM/KIL opcode ($02, $12, $22, $32,
\* $42, $52, $62, $72, $92, $B2, $D2, $F2) sets halted; a cpu6502_step on a
\* halted CPU returns 0 cycles, makes no bus access and leaves PC, A, X, Y,
\* SP, the six flags, halted, all memory and the devices unchanged; only
\* cpu6502_reset clears halted.
C1_JamHaltsUntilReset ==
    [][ /\ (obs'.op = "step" /\ ~cpu.halted /\ obs'.opcode \in JamOpcodes)
              => cpu'.halted
        /\ (obs'.op = "step" /\ cpu.halted)
              => /\ obs'.ret = 0
                 /\ CpuRegisters(cpu') = CpuRegisters(cpu)
                 /\ cpu'.halted
                 /\ memory' = memory /\ via' = via /\ out' = out
                 /\ obs'.log = << >>
        /\ (cpu.halted /\ ~cpu'.halted) => obs'.op = "reset"
      ]_vars

\* A step was called on a CPU that a JAM opcode had halted, after the host
\* had also raised an interrupt or reset it; the step returned 0.
C1_Witness ==
    /\ obs.op = "step" /\ obs.before.halted /\ obs.ret = 0
    /\ cpu.halted /\ cpu.current_opcode \in JamOpcodes
    /\ cpu.pc = obs.before.pc
    /\ obs.n_calls > 0

\* The frame an interrupt leaves: PC-high at $0100+SP, PC-low and the status
\* byte at the two page-1 addresses below it (wrapping inside the page), SP
\* three lower, I set, PC from the vector, bit 5 of the status byte 1 and
\* bit 4 equal to b.
C2_Frame(pushed_pc, vector, b) ==
    LET w == CpuWrites'
    IN  /\ Len(w) = 3
        /\ w[1] = <<"W", 256 + cpu.sp, pushed_pc \div 256>>
        /\ w[2] = <<"W", 256 + ((cpu.sp - 1) % 256), pushed_pc % 256>>
        /\ w[3][2] = 256 + ((cpu.sp - 2) % 256)
        /\ (w[3][3] \div 32) % 2 = 1
        /\ (w[3][3] \div 16) % 2 = b
        /\ \A i \in 1..3 : memory_read(memory', w[i][2]) = w[i][3]
        /\ cpu'.sp = (cpu.sp - 3) % 256
        /\ cpu'.flag_i
        /\ cpu'.pc = VectorWord(vector)'

\* C2: cpu6502_nmi, cpu6502_irq with I = 0 and BRK each push PC-high, PC-low
\* and the status byte to descending page-1 addresses, lower SP by 3, set I
\* and load PC from $FFFA (NMI) or $FFFE (IRQ, BRK); the pushed status has
\* bit 5 = 1 and bit 4 = 0 for NMI and IRQ, bit 4 = 1 for BRK and PHP; NMI
\* and IRQ push the current PC, BRK the address of its opcode + 2.
C2_InterruptFrames ==
    [][ /\ obs'.op = "nmi" => C2_Frame(cpu.pc, NMI_VECTOR, 0)
        /\ (obs'.op = "irq" /\ ~cpu.flag_i) => C2_Frame(cpu.pc, IRQ_VECTOR, 0)
        /\ (obs'.op = "step" /\ ~cpu.halted /\ obs'.opcode = 0)
              => C2_Frame(U16(cpu.pc + 2), IRQ_VECTOR, 1)
        /\ (obs'.op = "step" /\ ~cpu.halted /\ obs'.opcode = 8)
              => LET w == CpuWrites'
                 IN  /\ Len(w) = 1
                     /\ w[1][2] = 256 + cpu.sp
                     /\ (w[1][3] \div 32) % 2 = 1
                     /\ (w[1][3] \div 16) % 2 = 1
                     /\ cpu'.sp = (cpu.sp - 1) % 256
      ]_vars

\* BRK has just run with SP = 1: PC-high went to $0101, PC-low to $0100 and
\* the status, with bits 5 and 4 set, to $01FF.
C2_Witness ==
    /\ obs.op = "step" /\ obs.opcode = 0 /\ ~obs.before.halted
    /\ obs.before.sp = 1 /\ cpu.sp = 254
    /\ Len(CpuWrites) = 3
    /\ CpuWrites[1][2] = 257 /\ CpuWrites[2][2] = 256 /\ CpuWrites[3][2] = 511
    /\ memory_read(memory, 257) * 256 + memory_read(memory, 256)
          = obs.before.pc + 2
    /\ (memory_read(memory, 511) \div 16) % 4 = 3
    /\ cpu.flag_i /\ cpu.pc = Word(IrqHandler)

\* C3: cpu6502_irq with I = 1 returns 0, makes no bus access and leaves the
\* CPU, memory and the devices as they were; cpu6502_nmi is serviced (frame
\* pushed, PC from $FFFA, 7 cycles) whatever the I flag.
C3_IrqMaskedNmiNot ==
    [][ /\ (obs'.op = "irq" /\ cpu.flag_i)
              => /\ obs'.ret = 0
                 /\ cpu' = cpu /\ memory' = memory /\ via' = via /\ out' = out
                 /\ obs'.log = << >>
        /\ obs'.op = "nmi"
              => /\ obs'.ret = 7
                 /\ Len(CpuWrites') = 3
                 /\ cpu'.sp = (cpu.sp - 3) % 256
                 /\ cpu'.pc = VectorWord(NMI_VECTOR)'
      ]_vars

\* An IRQ has just been ignored with I = 1, after an NMI had been serviced
\* with I = 1.
C3_Witness ==
    /\ obs.op = "irq" /\ obs.before.flag_i /\ obs.ret = 0
    /\ obs.nmi_with_i
    /\ cpu.pc = obs.before.pc /\ cpu.sp = obs.before.sp

-----------------------------------------------------------------------------
(* Specification SpecHost: the two host programs around the CPU.  The      *)
(* monitor (src/main.c) builds the machine, loads the program, writes the  *)
(* reset vector, initialises the CPU and runs do_run; the raylib front end *)
(* (src/tia/main.c) initialises the CPU, loads a ROM at $F000, resets the  *)
(* CPU and then, per displayed frame, runs a fixed number of instructions  *)
(* and clocks the TIA for one scanline.  Both create the bus with a 1 MHz  *)
(* clock; clock_wait_next_cycle only waits.                                *)

MaxRunSteps == 12       \* do_run iterations explored per run
MaxFrames   == 1        \* frames of the raylib front end explored per run

StepsPerFrame   == 16666    \* instructions per frame in src/tia/main.c
romStartAddress == 61440    \* 0xF000

MonitorStartAddresses == { 512, 32768 }      \* $0200, $8000
RunSteps == { -1, 3 }                        \* do_run(-1), do_run(3)

\* LDA #$01; STA $D003 (enable TX); LDA #$48; STA $D001 (send "H");
\* then either JMP to itself or JAM
HostCode(start_address) ==
    LET head == << 169, 1, 141, 3, 208, 169, 72, 141, 1, 208 >>
        spin == start_address + Len(head)
    IN  { head \o << 76, spin % 256, spin \div 256 >>, head \o << 2 >> }

\* A ROM that fills $F000-$FFFF: the code, then zeros, then the three
\* vectors, all pointing at the code
RomImages ==
    LET vector == << romStartAddress % 256, romStartAddress \div 256 >>
    IN  { code \o Repeat(0, 65536 - romStartAddress - Len(code) - 6)
               \o vector \o vector \o vector : code \in HostCode(romStartAddress) }

HostObs0 ==
    [ op |-> "init", cycles |-> 0, tia_cycles |-> 0, via_ticks |-> 0,
      acia_polls |-> 0, n_steps |-> 0 ]

\* The machine both hosts build before the CPU exists
HostMachine(mem) ==
    [ cpu |-> NoDevice,
      bus |-> [bus_init(TRUE, TRUE, TRUE) EXCEPT !.clock_disabled = FALSE],
      memory |-> mem, acia |-> acia_init, via |-> via_init, tia |-> tia_init,
      out |-> << >>, log |-> << >> ]

\* main() of src/main.c up to the prompt, then the `run` command
MonitorStart(code, start_address) ==
    cpu6502_init(
        bus_write_memory(
            bus_write_memory(
                HostMachine(bus_load_program(memory_init(65536), code,
                                             start_address)),
                RESET_VECTOR, start_address % 256),
            RESET_VECTOR + 1, start_address \div 256)).m

\* main() of src/tia/main.c up to its main loop
TiaMainStart(rom) ==
    Let(cpu6502_init(HostMachine(memory_init(65536))).m, LAMBDA m :
        cpu6502_reset(
            [m EXCEPT !.memory = bus_load_program(@, rom, romStartAddress)]).m)

InitHost ==
    /\ via6522 = NoDevice
    /\ \E m \in
          UNION { { MonitorStart(code, start_address) :
                        code \in HostCode(start_address) } :
                  start_address \in MonitorStartAddresses }
          \cup { TiaMainStart(rom) : rom \in RomImages } :
          /\ cpu = m.cpu /\ bus = m.bus /\ memory = m.memory /\ acia = m.acia
          /\ via = m.via /\ tia = m.tia /\ out = m.out
          /\ host \in IF m.cpu.pc = romStartAddress
                      THEN { [main |-> "tia", i |-> 0, frames |-> 0] }
                      ELSE { [main |-> "monitor", steps |-> steps, count |-> 0,
                              running |-> TRUE] : steps \in RunSteps }
    /\ obs = HostObs0

\* cpu6502_step followed by acia_process_tx, as both loops call them
HostStepAndPoll(m) ==
    Let(cpu6502_step(m), LAMBDA r :
    Let(acia_process_tx(r.m.acia, r.m.out), LAMBDA tx :
        [m |-> [r.m EXCEPT !.acia = tx.a, !.out = tx.out], ret |-> r.ret]))

HostCommit(m) ==
    /\ cpu' = m.cpu /\ memory' = m.memory /\ acia' = m.acia /\ via' = m.via
    /\ tia' = m.tia /\ out' = m.out
    /\ UNCHANGED <<bus, via6522>>

\* One pass of the while loop of do_run with no key pressed
DoRun ==
    /\ host.main = "monitor" /\ host.running
    /\ obs.n_steps < MaxRunSteps
    /\ IF cpu.halted
       THEN /\ host' = [host EXCEPT !.running = FALSE]
            /\ obs' = [obs EXCEPT !.op = "halted"]
            /\ UNCHANGED <<cpu, bus, memory, acia, via, tia, via6522, out>>
       ELSE \E r \in { HostStepAndPoll(Machine) } :
              /\ HostCommit(r.m)
              /\ host' = IF host.steps > 0
                         THEN [host EXCEPT !.count = @ + 1,
                                           !.running = (host.count + 1 < host.steps)]
                         ELSE host
              /\ obs' = [obs EXCEPT !.op = "step", !.cycles = r.ret,
                                    !.tia_cycles = 0, !.via_ticks = 0,
                                    !.acia_polls = 1, !.n_steps = @ + 1]

\* One pass of the instruction loop of src/tia/main.c
TiaMainStep ==
    /\ host.main = "tia" /\ host.frames < MaxFrames
    /\ host.i < StepsPerFrame
    /\ \E r \in { HostStepAndPoll(Machine) } :
          /\ HostCommit(r.m)
          /\ host' = [host EXCEPT !.i = @ + 1]
          /\ obs' = [obs EXCEPT !.op = "step", !.cycles = r.ret,
                                !.tia_cycles = 0, !.via_ticks = 0,
                                !.acia_polls = 1, !.n_steps = @ + 1]

\* The TIA loop that follows the instruction loop, to the end of the frame
TiaMainRender ==
    /\ host.main = "tia" /\ host.frames < MaxFrames
    /\ host.i = StepsPerFrame
    /\ tia' = tia_cycle_n(tia, TIA_CYCLES_PER_SCANLINE)
    /\ host' = [host EXCEPT !.i = 0, !.frames = @ + 1]
    /\ obs' = [obs EXCEPT !.op = "render",
                          !.tia_cycles = @ + TIA_CYCLES_PER_SCANLINE]
    /\ UNCHANGED <<cpu, bus, memory, acia, via, via6522, out>>

NextHost == DoRun \/ TiaMainStep \/ TiaMainRender

SpecHost == InitHost /\ [][NextHost]_vars

\* C11: when an instruction is executed after one for which cpu6502_step
\* returned N cycles, tia_cycle has been called exactly 3N times and
\* via_tick exactly N times since that earlier instruction, and
\* acia_process_tx has been polled.
C11_TicksPerInstruction ==
    [][ (obs'.op = "step" /\ obs.n_steps > 0)
           => /\ obs.tia_cycles = 3 * obs.cycles
              /\ obs.via_ticks = obs.cycles
              /\ obs.acia_polls = 1
      ]_vars

-----------------------------------------------------------------------------
(* Specifications of single instructions: the machine of SpecCpu (64 KiB   *)
(* of RAM, the bus VIA, no TIA or ACIA) with one instruction in memory,    *)
(* the CPU at that instruction with registers as an earlier program left   *)
(* them, and one cpu6502_step.                                             *)

\* RAM with the vectors of SpecCpu and the bytes of code from address at
InstrMemory(code, at) ==
    bus_load_program(
        bus_load_program(memory_init(65536), VectorImage, NMI_VECTOR), code, at)

\* The registers A, X, Y, SP and the packed status p, as loads, TXS and PLP
\* set them, and the penalty flags of the instruction before
InstrCpu(c, at, regs) ==
    [cpu6502_set_status(c, regs.p)
        EXCEPT !.pc = at, !.a = regs.a, !.x = regs.x, !.y = regs.y,
               !.sp = regs.sp,
               !.penalty_opcode = regs.penalty, !.penalty_address = regs.penalty]

\* penalty is 1 when the instruction before was a read that crossed a page
Regs(a, x, y, sp, p) ==
    [a |-> a, x |-> x, y |-> y, sp |-> sp, p |-> p, penalty |-> 0]

InstrInit(mem, at, regs, input) ==
    /\ bus = bus_init(FALSE, FALSE, TRUE)
    /\ acia = NoDevice /\ tia = NoDevice /\ via6522 = NoDevice /\ host = NoDevice
    /\ via = via_init /\ out = << >>
    /\ memory = mem
    /\ cpu = InstrCpu(
                 cpu6502_init([ cpu |-> NoDevice, bus |-> bus, memory |-> mem,
                                acia |-> acia, via |-> via, tia |-> tia,
                                out |-> out, log |-> << >> ]).m.cpu,
                 at, regs)
    /\ obs = [ op |-> "init", ret |-> 0, input |-> input, before |-> NoDevice,
               log |-> << >> ]

\* cpu6502_step on the instruction
InstrStep ==
    /\ obs.op = "init"
    /\ \E r \in { cpu6502_step(Machine) } :
          /\ CpuCommit(r.m)
          /\ obs' = [obs EXCEPT !.op = "step", !.ret = r.ret, !.before = cpu,
                                !.log = r.m.log]

\* (int8_t) of a byte
Int8(v) == IF v >= 128 THEN v - 256 ELSE v

-----------------------------------------------------------------------------
(* Specification SpecBranch: each relative branch, at addresses at the     *)
(* start, in the middle and at the end of a page and of the address space, *)
(* with short, long, forward and backward offsets and every value of the   *)
(* four flags the branches test.                                           *)

BranchOpcodes   == { 16, 48, 80, 112, 144, 176, 208, 240 }
BranchAddresses == { 0, 512, 640, 765, 766, 767, 65520 }
BranchOffsets   == { 0, 1, 2, 127, 128, 252, 253, 254, 255 }
\* N, V, Z and C in the packed status
BranchFlags     == { n + v + z + c : n \in {0, 128}, v \in {0, 64},
                                     z \in {0, 2},   c \in {0, 1} }

InitBranch ==
    \E opcode \in BranchOpcodes, at \in BranchAddresses,
       offset \in BranchOffsets, p \in BranchFlags :
        InstrInit(InstrMemory(<< opcode, offset >>, at), at,
                  Regs(0, 0, 0, 253, p),
                  [opcode |-> opcode, offset |-> offset])

NextBranch == InstrStep

SpecBranch == InitBranch /\ [][NextBranch]_vars

\* Whether the branch opcode is to be taken with the flags of c
C12_Taken(opcode, c) ==
    CASE opcode = 16  -> ~c.flag_n
      [] opcode = 48  -> c.flag_n
      [] opcode = 80  -> ~c.flag_v
      [] opcode = 112 -> c.flag_v
      [] opcode = 144 -> ~c.flag_c
      [] opcode = 176 -> c.flag_c
      [] opcode = 208 -> ~c.flag_z
      [] opcode = 240 -> c.flag_z

\* The address of the instruction after the branch, and the branch target
C12_Following == U16(obs.before.pc + 2)
C12_Target    == U16(C12_Following + Int8(obs.input.offset))

\* C12: for each of BPL, BMI, BVC, BVS, BCC, BCS, BNE and BEQ cpu6502_step
\* returns 2 when the branch is not taken, 3 when it is taken to a target in
\* the 256-byte page of the address of the following instruction, and 4
\* when it is taken to a target in another page.
C12_BranchCycles ==
    obs.op = "step" =>
        obs.ret = IF ~C12_Taken(obs.input.opcode, obs.before) THEN 2
                  ELSE IF C12_Target \div 256 = C12_Following \div 256 THEN 3
                  ELSE 4

\* A branch has been taken into another page, for 4 cycles.
C12_Witness ==
    /\ obs.op = "step"
    /\ C12_Taken(obs.input.opcode, obs.before)
    /\ C12_Target \div 256 # C12_Following \div 256
    /\ cpu.pc = C12_Target
    /\ obs.ret = 4

-----------------------------------------------------------------------------
(* Specification SpecIndexed: every opcode of opcode_table that reads or   *)
(* stores through absolute,X, absolute,Y or (indirect),Y, and one opcode   *)
(* of each other addressing mode, with bases and indexes on both sides of  *)
(* a page boundary, decimal mode on and off.                               *)

InstrAt == 1024     \* $0400, where the instruction is

IndexedModes == { "am_absolute_x", "am_absolute_y", "am_indirect_indexed" }
ReadOps  == { "op_lda", "op_ldx", "op_ldy", "op_ora", "op_and", "op_eor",
              "op_adc", "op_sbc", "op_cmp", "op_lax", "op_las", "op_nop" }
StoreOps == { "op_sta", "op_stx", "op_sty", "op_sax", "op_sha", "op_shx",
              "op_shy", "op_tas" }

IndexedOpcodes ==
    { opcode \in 0..255 :
        /\ opcode_table[opcode].addr_mode \in IndexedModes
        /\ opcode_table[opcode].opcode_func \in ReadOps \cup StoreOps }

\* NOP, ASL A, LDA #, LDA zp, LDA zp,X, LDX zp,Y, BNE, LDA (zp,X), LDA abs,
\* JMP (abs)
OtherModeOpcodes == { 234, 10, 169, 165, 181, 182, 208, 161, 173, 108 }

IndexedBases ==
    { 256 * hi + lo : hi \in { 2, 95, 255 }, lo \in { 0, 127, 128, 255 } }
IndexValues  == { 0, 1, 127, 128, 129, 255 }
\* Where the pointer of (indirect),Y is: inside the zero page, and at its end
PointerAddresses == { 16, 255 }

\* The instruction with base as its operand word, or for (indirect),Y with
\* the pointer as operand and base in the zero page at the pointer
IndexedMemory(opcode, base, ptr) ==
    IF opcode_table[opcode].addr_mode = "am_indirect_indexed"
    THEN bus_load_program(
             bus_load_program(InstrMemory(<< opcode, ptr >>, InstrAt),
                              << base % 256 >>, ptr),
             << base \div 256 >>, U8(ptr + 1))
    ELSE InstrMemory(<< opcode, base % 256, base \div 256 >>, InstrAt)

\* The index is in the register the mode adds, the other index register
\* holds another value
InitIndexed ==
    \E opcode \in IndexedOpcodes \cup OtherModeOpcodes, base \in IndexedBases,
       index \in IndexValues, d \in {0, 8}, penalty \in {0, 1} :
      \E ptr \in IF opcode_table[opcode].addr_mode = "am_indirect_indexed"
                 THEN PointerAddresses ELSE { 0 } :
        LET other == U8(index + 128)
            in_y  == opcode_table[opcode].addr_mode
                        \in { "am_absolute_y", "am_indirect_indexed" }
        IN  InstrInit(IndexedMemory(opcode, base, ptr), InstrAt,
                      [Regs(85, IF in_y THEN other ELSE index,
                            IF in_y THEN index ELSE other, 253, d)
                          EXCEPT !.penalty = penalty],
                      [opcode |-> opcode, base |-> base, index |-> index])

NextIndexed == InstrStep

SpecIndexed == InitIndexed /\ [][NextIndexed]_vars

\* Whether base + index is in another page than base
Crosses(base, index) == (base \div 256) # (((base + index) % 65536) \div 256)

\* C13: after the addressing phase of absolute,X, absolute,Y and
\* (indirect),Y penalty_address is set if and only if base and
\* (base + index) mod 65536 are in different pages; after the addressing
\* phase of every other mode penalty_address is 0.  (No opcode function
\* changes penalty_address, so it is read when the step is over.)
C13_PageCrossFlag ==
    obs.op = "step" =>
        IF opcode_table[obs.input.opcode].addr_mode \in IndexedModes
        THEN (cpu.penalty_address # 0)
                 <=> Crosses(obs.input.base, obs.input.index)
        ELSE cpu.penalty_address = 0

\* (indirect),Y has crossed from $FFxx into page 0 and set the flag.
C13_Witness ==
    /\ obs.op = "step"
    /\ opcode_table[obs.input.opcode].addr_mode = "am_indirect_indexed"
    /\ obs.input.base = 65535 /\ obs.input.index = 1
    /\ cpu.effective_addr = 0
    /\ cpu.penalty_address = 1

\* C14: with decimal mode off, in absolute,X, absolute,Y and (indirect),Y
\* cpu6502_step returns the opcode's base cycles plus one for LDA, LDX,
\* LDY, ORA, AND, EOR, ADC, SBC, CMP, LAX, LAS and the NOP abs,X when the
\* indexed address crosses a page, the base cycles when it does not, and
\* the base cycles either way for STA, STX, STY, SAX, SHA, SHX, SHY and TAS.
C14_PageCrossCycles ==
    LET opcode == opcode_table[obs.input.opcode]
    IN  (/\ obs.op = "step"
         /\ ~obs.before.flag_d
         /\ opcode.addr_mode \in IndexedModes)
        => obs.ret = IF /\ opcode.opcode_func \in ReadOps
                        /\ Crosses(obs.input.base, obs.input.index)
                     THEN opcode.cycles + 1
                     ELSE opcode.cycles

\* STA abs,X has stored across a page boundary in its 5 base cycles.
C14_Witness ==
    /\ obs.op = "step"
    /\ obs.input.opcode = 157
    /\ Crosses(obs.input.base, obs.input.index)
    /\ \E i \in DOMAIN obs.log :
          obs.log[i] = << "W", U16(obs.input.base + obs.input.index), 85 >>
    /\ obs.ret = 5

-----------------------------------------------------------------------------
(* Specification SpecDecimal: ADC #M and SBC #M in decimal mode, for every *)
(* accumulator, both values of the carry, and as operand every valid BCD   *)
(* byte and a few bytes with a nibble above 9.                             *)

DecimalOpcodes == { 105, 233 }      \* ADC #, SBC #

\* Both nibbles are decimal digits
ValidBcd(v) == (v % 16) <= 9 /\ (v \div 16) <= 9
\* The two-digit decimal number a valid BCD byte encodes, and the encoding
BcdValue(v) == 10 * (v \div 16) + (v % 16)
BcdByte(n)  == 16 * (n \div 10) + (n % 10)

DecimalOperands == { v \in Byte : ValidBcd(v) } \cup { 10, 15, 80, 160, 240, 255 }

InitDecimal ==
    \E opcode \in DecimalOpcodes, a \in Byte, operand \in DecimalOperands,
       c \in {0, 1} :
        InstrInit(InstrMemory(<< opcode, operand >>, InstrAt), InstrAt,
                  Regs(a, 0, 0, 253, 8 + c),
                  [opcode |-> opcode, a |-> a, operand |-> operand, c |-> c])

NextDecimal == InstrStep

SpecDecimal == InitDecimal /\ [][NextDecimal]_vars

\* C15: for every accumulator, operand and carry-in, ADC with D = 1 leaves
\* an accumulator whose low nibble is below $0A and whose high nibble is
\* below $A0.
C15_BcdClosure ==
    (obs.op = "step" /\ obs.input.opcode = 105)
        => (cpu.a % 16) < 10 /\ BitAnd(cpu.a, 240) < 160

\* C15 for accumulators and operands that are valid BCD.
C15_BcdClosureValid ==
    (/\ obs.op = "step" /\ obs.input.opcode = 105
     /\ ValidBcd(obs.input.a) /\ ValidBcd(obs.input.operand))
        => (cpu.a % 16) < 10 /\ BitAnd(cpu.a, 240) < 160

\* $99 + $99 + 1 has been added, with both corrections, to $99.
C15_Witness ==
    /\ obs.op = "step" /\ obs.input.opcode = 105
    /\ obs.input.a = 153 /\ obs.input.operand = 153 /\ obs.input.c = 1
    /\ cpu.a = 153 /\ cpu.flag_c

\* The decimal sum and difference of the instruction's inputs
C16_Sum ==
    BcdValue(obs.input.a) + BcdValue(obs.input.operand) + obs.input.c
C16_Difference ==
    BcdValue(obs.input.a) - BcdValue(obs.input.operand) - (1 - obs.input.c)

\* C16: with D = 1 and valid BCD in A and M, ADC leaves in A the BCD
\* encoding of (A + M + C) mod 100 and sets the carry exactly when
\* A + M + C >= 100; SBC leaves the BCD encoding of (A - M - (1 - C)) mod 100
\* and sets the carry exactly when A - M - (1 - C) >= 0; A and M read as
\* two-digit decimal numbers.
C16_DecimalReference ==
    (/\ obs.op = "step"
     /\ ValidBcd(obs.input.a) /\ ValidBcd(obs.input.operand))
        => IF obs.input.opcode = 105
           THEN /\ cpu.a = BcdByte(C16_Sum % 100)
                /\ cpu.flag_c <=> (C16_Sum >= 100)
           ELSE /\ cpu.a = BcdByte(C16_Difference % 100)
                /\ cpu.flag_c <=> (C16_Difference >= 0)

\* SBC has taken 1 from 0 with a borrow: 99, carry clear.
C16_Witness ==
    /\ obs.op = "step" /\ obs.input.opcode = 233
    /\ obs.input.a = 0 /\ obs.input.operand = 1 /\ obs.input.c = 1
    /\ cpu.a = 153 /\ ~cpu.flag_c

-----------------------------------------------------------------------------
(* Specification SpecJmpIndirect: JMP (ptr) with pointers at the start, in *)
(* the middle and at the end of a page, and different bytes at ptr, at     *)
(* ptr + 1 and at the start of the page of ptr.                            *)

JmpPointers   == { 256 * hi + lo : hi \in { 2, 128, 254, 255 },
                                   lo \in { 0, 1, 127, 254, 255 } }
JmpLowBytes   == { 0, 52, 255 }
JmpPageBytes  == { 18, 128 }     \* at (ptr & $FF00) | ((ptr + 1) & $FF)
JmpNextBytes  == { 86, 255 }     \* at ptr + 1 when that is in the next page

InitJmpIndirect ==
    \E ptr \in JmpPointers, low \in JmpLowBytes, in_page \in JmpPageBytes,
       next \in JmpNextBytes :
        InstrInit(
            bus_load_program(
                bus_load_program(
                    bus_load_program(
                        InstrMemory(<< 108, ptr % 256, ptr \div 256 >>, InstrAt),
                        << low >>, ptr),
                    << next >>, U16(ptr + 1)),
                << in_page >>, (ptr \div 256) * 256 + ((ptr + 1) % 256)),
            InstrAt, Regs(0, 0, 0, 253, 0), [ptr |-> ptr])

NextJmpIndirect == InstrStep

SpecJmpIndirect == InitJmpIndirect /\ [][NextJmpIndirect]_vars

\* The addresses the step has read
C17_Reads == { obs.log[i][2] : i \in DOMAIN obs.log }

\* C17: after JMP (ptr) the low byte of PC is mem[ptr] and the high byte is
\* mem[(ptr & $FF00) | ((ptr + 1) & $00FF)]: for ptr = $xxFF it is fetched
\* from $xx00 and not from $(xx+1)00, for every other ptr from ptr + 1.
C17_JmpIndirectWrap ==
    obs.op = "step" =>
        LET ptr == obs.input.ptr
        IN  /\ cpu.pc = memory_read(memory, ptr)
                        + 256 * memory_read(memory,
                                            BitOr(BitAnd(ptr, 65280),
                                                  BitAnd(ptr + 1, 255)))
            /\ IF ptr % 256 = 255
               THEN /\ cpu.pc \div 256 = memory_read(memory, ptr - 255)
                    /\ (ptr - 255) \in C17_Reads
                    /\ U16(ptr + 1) \notin C17_Reads
               ELSE /\ cpu.pc \div 256 = memory_read(memory, ptr + 1)
                    /\ (ptr + 1) \in C17_Reads

\* JMP ($02FF) has taken its high byte from $0200, which differs from the
\* byte at $0300.
C17_Witness ==
    /\ obs.op = "step" /\ obs.input.ptr = 767
    /\ memory_read(memory, 512) # memory_read(memory, 768)
    /\ cpu.pc = memory_read(memory, 767) + 256 * memory_read(memory, 512)

-----------------------------------------------------------------------------
(* Specification SpecStatus: the machine of SpecCpu after cpu6502_init,    *)
(* with a caller of cpu6502_set_status and cpu6502_get_status, as the test *)
(* harness (src/tests/test.c) is one.                                      *)

InitStatus ==
    /\ bus = bus_init(FALSE, FALSE, TRUE)
    /\ acia = NoDevice /\ tia = NoDevice /\ via6522 = NoDevice /\ host = NoDevice
    /\ via = via_init /\ out = << >>
    /\ memory = InstrMemory(<< 2 >>, InstrAt)
    /\ cpu = cpu6502_init([ cpu |-> NoDevice, bus |-> bus, memory |-> memory,
                            acia |-> acia, via |-> via, tia |-> tia,
                            out |-> out, log |-> << >> ]).m.cpu
    /\ obs = [ op |-> "init", was_set |-> FALSE, value |-> 0, ret |-> 0,
               before |-> cpu ]

StatusRest == <<bus, memory, acia, via, tia, via6522, out, host>>

\* cpu6502_set_status(value); value is remembered as the byte last set
StatusSet ==
    \E value \in Byte :
        /\ cpu' = cpu6502_set_status(cpu, value)
        /\ obs' = [ op |-> "set", was_set |-> TRUE, value |-> value,
                    ret |-> 0, before |-> cpu' ]
        /\ UNCHANGED StatusRest

\* cpu6502_get_status()
StatusGet ==
    /\ obs' = [obs EXCEPT !.op = "get", !.ret = cpu6502_get_status(cpu),
                          !.before = cpu]
    /\ UNCHANGED <<cpu, StatusRest>>

\* cpu6502_set_status(cpu6502_get_status())
StatusRoundTrip ==
    /\ cpu' = cpu6502_set_status(cpu, cpu6502_get_status(cpu))
    /\ obs' = [obs EXCEPT !.op = "round trip", !.ret = 0, !.before = cpu]
    /\ UNCHANGED StatusRest

NextStatus == StatusSet \/ StatusGet \/ StatusRoundTrip

SpecStatus == InitStatus /\ [][NextStatus]_vars

Flags(c) == << c.flag_c, c.flag_z, c.flag_i, c.flag_d, c.flag_v, c.flag_n >>

\* C18: cpu6502_set_status(cpu6502_get_status()) leaves the six flags as
\* they were, whatever they were; cpu6502_get_status returns a byte with
\* bit 5 set and bit 4 clear; and after cpu6502_set_status(v) it returns
\* (v & $CF) | $20.
C18_StatusRoundTrip ==
    /\ obs.op = "round trip" => Flags(cpu) = Flags(obs.before)
    /\ obs.op = "get" =>
          /\ Test(obs.ret, 32) /\ ~Test(obs.ret, 16)
          /\ obs.was_set => obs.ret = BitOr(BitAnd(obs.value, 207), 32)

\* $DF was set, with bit 4 and without bit 5, and $EF is read back.
C18_Witness ==
    /\ obs.op = "get" /\ obs.value = 223 /\ obs.ret = 239
    /\ Flags(cpu) = << TRUE, TRUE, TRUE, TRUE, TRUE, TRUE >>

-----------------------------------------------------------------------------
(* Specification SpecStack: the machine of SpecCpu with any stack pointer, *)
(* as TXS leaves it, and the calls of push8, pull8, push16 and pull16 that *)
(* the stack instructions and the interrupts make: a push of some value,   *)
(* then the pull of the same width.                                        *)

\* Every byte is pushed at these stack pointers, StackBytes at the others
StackPointers == { 0, 1, 2, 127, 253, 254, 255 }
StackBytes    == { 0, 1, 127, 128, 255 }
StackWords    == { 0, 255, 256, 4660, 32768, 65280, 65535 }

InitStack ==
    \E sp \in Byte :
        /\ bus = bus_init(FALSE, FALSE, TRUE)
        /\ acia = NoDevice /\ tia = NoDevice /\ via6522 = NoDevice
        /\ host = NoDevice
        /\ via = via_init /\ out = << >>
        /\ memory = InstrMemory(<< 2 >>, InstrAt)
        /\ cpu = [cpu6502_init([ cpu |-> NoDevice, bus |-> bus,
                                 memory |-> memory, acia |-> acia,
                                 via |-> via, tia |-> tia, out |-> out,
                                 log |-> << >> ]).m.cpu EXCEPT !.sp = sp]
        /\ obs = [ op |-> "init", value |-> 0, ret |-> 0, start_sp |-> sp,
                   log |-> << >> ]

StackPush8 ==
    /\ obs.op = "init"
    /\ \E value \in IF cpu.sp \in StackPointers THEN Byte ELSE StackBytes :
          /\ CpuCommit(push8(Machine, value))
          /\ obs' = [obs EXCEPT !.op = "push8", !.value = value,
                                !.log = push8(Machine, value).log]

StackPull8 ==
    /\ obs.op = "push8"
    /\ \E r \in { pull8(Machine) } :
          /\ CpuCommit(r.m)
          /\ obs' = [obs EXCEPT !.op = "pull8", !.ret = r.ret, !.log = r.m.log]

StackPush16 ==
    /\ obs.op = "init"
    /\ \E value \in StackWords :
          /\ CpuCommit(push16(Machine, value))
          /\ obs' = [obs EXCEPT !.op = "push16", !.value = value,
                                !.log = push16(Machine, value).log]

StackPull16 ==
    /\ obs.op = "push16"
    /\ \E r \in { pull16(Machine) } :
          /\ CpuCommit(r.m)
          /\ obs' = [obs EXCEPT !.op = "pull16", !.ret = r.ret,
                                !.log = r.m.log]

NextStack == StackPush8 \/ StackPull8 \/ StackPush16 \/ StackPull16

SpecStack == InitStack /\ [][NextStack]_vars

\* C19: push8(b) followed by pull8 returns b and restores SP, for every
\* starting SP, SP = $00 included; so do push16 and pull16 with a 16-bit
\* value; and every access push8, pull8, push16 and pull16 make is to an
\* address in $0100-$01FF.
C19_StackRoundTrip ==
    /\ obs.op \in {"pull8", "pull16"} =>
          obs.ret = obs.value /\ cpu.sp = obs.start_sp
    /\ obs.op # "init" =>
          /\ Len(obs.log) = IF obs.op \in {"push8", "pull8"} THEN 1 ELSE 2
          /\ \A i \in DOMAIN obs.log : obs.log[i][2] \in 256..511

\* From SP = $00 a word went to $0100 and $01FF and has been pulled back,
\* low byte first, with SP at $00 again.
C19_Witness ==
    /\ obs.op = "pull16" /\ obs.start_sp = 0 /\ obs.value = 4660
    /\ obs.log = << << "R", 511, 52 >>, << "R", 256, 18 >> >>
    /\ obs.ret = 4660 /\ cpu.sp = 0

-----------------------------------------------------------------------------
(* SpecCpu: the state cpu6502_init and cpu6502_reset leave.                *)

\* SP = $FD, A = X = Y = 0, the six flags clear, not halted, PC the word at
\* the reset vector
C20_ResetState ==
    /\ cpu.sp = 253 /\ cpu.a = 0 /\ cpu.x = 0 /\ cpu.y = 0
    /\ Flags(cpu) = << FALSE, FALSE, FALSE, FALSE, FALSE, FALSE >>
    /\ ~cpu.halted
    /\ cpu.pc = memory_read(memory, RESET_VECTOR)
                + 256 * memory_read(memory, RESET_VECTOR + 1)

\* C20: after a successful cpu6502_init, and after every cpu6502_reset from
\* any state, a halted one included, SP = $FD, A = X = Y = 0, the six flags
\* are clear, halted is false and PC is the little-endian word at
\* $FFFC/$FFFD; and the reset has written nothing and left memory as it was.
C20_ResetPostcondition ==
    /\ obs.op = "init" => C20_ResetState
    /\ [][ obs'.op = "reset"
             => /\ C20_ResetState'
                /\ memory' = memory
                /\ \A i \in DOMAIN obs'.log : ~IsWrite(obs'.log[i])
         ]_vars

\* A CPU that a JAM halted, with the stack pointer moved by TXS and the
\* stack written by BRK, has been reset.
C20_Witness ==
    /\ obs.op = "reset" /\ obs.before.halted /\ obs.before.sp # 253
    /\ memory_read(memory, 256) # 0
    /\ C20_ResetState

-----------------------------------------------------------------------------
(* Specification SpecLoad: bus_load_program on a bus without devices, with *)
(* 64 KiB of RAM and with less, for images that fit, that end past the RAM *)
(* and that end past $FFFF.  A store past the end of the malloc'ed buffer  *)
(* is undefined: the bytes land in the heap after the buffer, or the       *)
(* process is stopped.                                                     *)

MaxLoads == 2       \* bus_load_program calls explored per run

LoadSizes  == { 32, 65536 }
LoadImages == { << >>, << 170 >>, << 1, 2 >>, << 0, 7, 0 >> }
LoadStarts == { 0, 30, 31, 32, 65533, 65534, 65535 }

InitLoad ==
    /\ bus = bus_init(FALSE, FALSE, FALSE)
    /\ acia = NoDevice /\ tia = NoDevice /\ via = NoDevice
    /\ via6522 = NoDevice /\ host = NoDevice /\ cpu = NoDevice /\ out = << >>
    /\ \E size \in LoadSizes : memory = memory_init(size)
    /\ obs = [ op |-> "init", image |-> << >>, readable |-> 0, start |-> 0,
               ret |-> 0, overrun |-> 0, n_loads |-> 0 ]

BusLoadProgram ==
    /\ obs.op # "stopped" /\ obs.n_loads < MaxLoads
    /\ \E image \in LoadImages, start \in LoadStarts :
       \E readable \in { Len(image) } \cup { n \in {0} : Len(image) > 0 } :
       \E r \in { bus_load_program_from_file(
                      memory, [image |-> image, readable |-> readable], start) } :
       \E stopped \in { FALSE } \cup { x \in { TRUE } : r.overrun > 0 } :
          /\ memory' = IF stopped THEN memory ELSE r.mem
          /\ obs' = [ op |-> IF stopped THEN "stopped" ELSE "load",
                      image |-> image, readable |-> readable, start |-> start,
                      ret |-> r.ret, overrun |-> r.overrun,
                      n_loads |-> obs.n_loads + 1 ]
          /\ UNCHANGED <<cpu, bus, acia, via, tia, via6522, out, host>>

NextLoad == BusLoadProgram

SpecLoad == InitLoad /\ [][NextLoad]_vars

\* The byte of memory.data at an address below the size
C22_Byte(mem, address) ==
    IF address \in DOMAIN mem.data THEN mem.data[address] ELSE 0

\* The addresses below the size that are, were or should be other than 0
C22_Touched(dest) ==
    { a \in dest \cup DOMAIN memory.data \cup DOMAIN memory'.data :
        a < memory.size }

\* C22: bus_load_program with an image of N bytes at s fails and leaves
\* every byte of memory as it was when s + N > 65536; otherwise, the image
\* fully read, it succeeds with the N bytes at s..s+N-1 and every other
\* location as it was, and nothing outside the configured RAM size is
\* modified.
C22_LoadProgram ==
    [][ LET n    == Len(obs'.image)
            s    == obs'.start
            dest == s .. (s + n - 1)
        IN  IF s + n > 65536
            THEN obs'.op = "load" /\ obs'.ret = -1 /\ memory' = memory
            ELSE obs'.readable = n =>
                    /\ obs'.op = "load" /\ obs'.ret = 0
                    /\ obs'.overrun = 0
                    /\ \A a \in C22_Touched(dest) :
                          C22_Byte(memory', a) =
                              IF a \in dest THEN obs'.image[a - s + 1]
                              ELSE C22_Byte(memory, a)
      ]_vars

\* C22 for images that end inside the configured RAM.
C22_LoadProgramInRam ==
    [][ LET n    == Len(obs'.image)
            s    == obs'.start
            dest == s .. (s + n - 1)
        IN  IF s + n > 65536
            THEN obs'.op = "load" /\ obs'.ret = -1 /\ memory' = memory
            ELSE (obs'.readable = n /\ s + n <= memory.size) =>
                    /\ obs'.op = "load" /\ obs'.ret = 0
                    /\ obs'.overrun = 0
                    /\ \A a \in C22_Touched(dest) :
                          C22_Byte(memory', a) =
                              IF a \in dest THEN obs'.image[a - s + 1]
                              ELSE C22_Byte(memory, a)
      ]_vars

\* A 3-byte image loaded at $001E into 32 bytes of RAM: bus_load_program
\* returned 0 and one byte went past the end of the buffer.
C22_Witness ==
    /\ obs.op = "load" /\ memory.size = 32
    /\ obs.start = 30 /\ Len(obs.image) = 3 /\ obs.readable = 3
    /\ obs.ret = 0 /\ obs.overrun = 1

-----------------------------------------------------------------------------
(* Specification SpecTiaPixel: one scanline of pixels.  The players are    *)
(* placed by RESP0 and RESP1 writes during line 0, the colours, shapes,    *)
(* playfield and CTRLPF are written at the start of line 1, and line 1 is  *)
(* then clocked through.                                                   *)

MaxPixelCycles == 228       \* tia_cycle calls explored per run

\* <<clock of the RESP0 write, clock of the RESP1 write>>
PixelPlayerClocks == { <<0, 0>>, <<20, 24>>, <<78, 150>> }
\* <<GRP0, GRP1>>
PixelPlayerShapes == { <<0, 0>>, <<255, 240>> }
\* <<COLUP0, COLUP1, COLUPF, COLUBK>>
PixelColours      == { <<0, 0, 0, 68>>, <<30, 44, 58, 68>> }
\* <<PF0, PF1, PF2>>
PixelPlayfields   == { <<0, 0, 0>>, <<0, 255, 0>>, <<240, 255, 255>>, <<80, 165, 129>> }
PixelCtrlpf       == { 0, 1, 2, 3 }

\* The writes of a sequence of <<register, data>> pairs, in order
RECURSIVE tia_write_all(_, _)
tia_write_all(t, writes) ==
    IF writes = << >> THEN t
    ELSE tia_write_all(tia_write(t, Head(writes)[1], Head(writes)[2]), Tail(writes))

InitTiaPixel ==
    /\ \E at \in PixelPlayerClocks, grp \in PixelPlayerShapes,
          col \in PixelColours, pf \in PixelPlayfields, ctrl \in PixelCtrlpf :
          tia = tia_write_all(
                   tia_cycle_n(
                       tia_write(
                           tia_cycle_n(
                               tia_write(tia_cycle_n(tia_init, at[1]),
                                         TIA_REG_RESP0, 0),
                               at[2] - at[1]),
                           TIA_REG_RESP1, 0),
                       TIA_CYCLES_PER_SCANLINE - at[2]),
                   << <<TIA_REG_GRP0, grp[1]>>, <<TIA_REG_GRP1, grp[2]>>,
                      <<TIA_REG_COLUP0, col[1]>>, <<TIA_REG_COLUP1, col[2]>>,
                      <<TIA_REG_COLUPF, col[3]>>, <<TIA_REG_COLUBK, col[4]>>,
                      <<TIA_REG_PF0, pf[1]>>, <<TIA_REG_PF1, pf[2]>>,
                      <<TIA_REG_PF2, pf[3]>>, <<TIA_REG_CTRLPF, ctrl>> >>)
    /\ obs = [ op |-> "init", n_cycles |-> 0 ]
    /\ out = <<>>
    /\ cpu = NoDevice /\ bus = NoDevice /\ memory = <<>>
    /\ acia = NoDevice /\ via = NoDevice /\ via6522 = NoDevice /\ host = NoDevice

TiaPixelCycle ==
    /\ obs.n_cycles < MaxPixelCycles
    /\ tia' = tia_cycle(tia)
    /\ obs' = [obs EXCEPT !.op = "cycle", !.n_cycles = @ + 1]
    /\ UNCHANGED TiaRest

NextTiaPixel == TiaPixelCycle

SpecTiaPixel == InitTiaPixel /\ [][NextTiaPixel]_vars

\* The tia_cycle in progress renders the pixel under the beam.
PixelVisible ==
    /\ ~tia.vsync /\ ~tia.vblank
    /\ tia.scanline < TIA_SCREEN_HEIGHT /\ tia.color_clock < TIA_SCREEN_WIDTH

\* C31: the colour code rendered at a visible pixel x is colup1 if the
\* player-1 bit is set at x, else colup0 if the player-0 bit is set, else
\* the playfield colour if the playfield bit is set (colupf with score mode
\* off; colup0 for x < 80 and colup1 for x >= 80 with score mode on), else
\* colubk.  The framebuffer receives the colour-table entry of that code.
C31_PixelPriority ==
    [][ PixelVisible =>
          LET x  == tia.color_clock
              p0 == get_player_pixel(tia.grp0, tia.p0_x, x)
              p1 == get_player_pixel(tia.grp1, tia.p1_x, x)
              pf == get_playfield_pixel(tia, x)
              code == IF p1 THEN tia.colup1
                      ELSE IF p0 THEN tia.colup0
                      ELSE IF pf THEN
                           (IF ~Test(tia.ctrlpf, CTRLPF_SCORE_BIT) THEN tia.colupf
                            ELSE IF x < 80 THEN tia.colup0 ELSE tia.colup1)
                      ELSE tia.colubk
          IN  tia'.framebuffer = <<tia.scanline, x, tia_color_to_rgba(code)>>
      ]_vars

\* Both players and the playfield are on the pixel just rendered, and it
\* has the colour of player 1.
C31_Witness ==
    /\ obs.op = "cycle" /\ tia.color_clock = 25 /\ tia.scanline = 1
    /\ tia.p0_x = 20 /\ tia.p1_x = 24 /\ tia.grp0 = 255 /\ tia.grp1 = 240
    /\ tia.colup0 = 30 /\ tia.colup1 = 44 /\ tia.pf1 = 255
    /\ tia.framebuffer = <<1, 24, 44>>

\* The TIA as left by tia_init and the writes COLUBK=$44, PF1=$FF, CTRLPF=$00
C32_Setup ==
    /\ \A r \in 0 .. TIA_REG_COUNT - 1 :
          tia.registers[r] = IF r = TIA_REG_COLUBK THEN 68
                             ELSE IF r = TIA_REG_PF1 THEN 255 ELSE 0
    /\ tia.colubk = 68 /\ tia.pf1 = 255 /\ tia.pf0 = 0 /\ tia.pf2 = 0
    /\ tia.ctrlpf = 0 /\ tia.colupf = 0 /\ tia.grp0 = 0 /\ tia.grp1 = 0
    /\ ~tia.vsync /\ ~tia.vblank

\* C32: after tia_init and the writes COLUBK=$44, PF1=$FF, CTRLPF=$00, a
\* visible scanline clocked with vsync and vblank clear gets the playfield
\* colour (COLUPF) at exactly the pixels x in [16, 48) and the background
\* colour code $44 at every other x in [0, 160).
C32_PlayfieldSpan ==
    [][ (C32_Setup /\ PixelVisible) =>
          LET x == tia.color_clock
          IN  tia'.framebuffer =
                  <<tia.scanline, x,
                    tia_color_to_rgba(IF 16 <= x /\ x < 48 THEN tia.colupf ELSE 68)>>
      ]_vars

\* The last pixel of the scanline has been rendered with the background
\* colour, after the 32 playfield pixels of PF1.
C32_Witness ==
    /\ C32_Setup /\ obs.op = "cycle" /\ obs.n_cycles = TIA_SCREEN_WIDTH
    /\ tia.color_clock = TIA_SCREEN_WIDTH
    /\ tia.framebuffer = <<1, TIA_SCREEN_WIDTH - 1, 68>>

PixelReflect == Test(tia.ctrlpf, CTRLPF_REFLECT_BIT)

\* C33: when the CTRLPF reflect bit is set, for every x in [80, 160) and all
\* values of PF0, PF1, PF2 the playfield bit at x equals the playfield bit
\* at 159 - x.
C33_Reflects ==
    PixelReflect =>
        \A x \in 80 .. TIA_SCREEN_WIDTH - 1 :
            get_playfield_pixel(tia, x) = get_playfield_pixel(tia, 159 - x)

\* C33, as the code behaves: the index is clamped to 19 before the reflect
\* test, so every x in [80, 160) reads bit 0 of PF2, reflect bit or not.
C33_RightHalfConstant ==
    \A x \in 80 .. TIA_SCREEN_WIDTH - 1 :
        get_playfield_pixel(tia, x) = BitSet(tia.pf2, 0)

\* With the reflect bit set and only PF1=$FF, pixel 120 has just been
\* rendered in the background colour although pixel 39 is a playfield pixel.
C33_Witness ==
    /\ PixelReflect /\ obs.op = "cycle" /\ tia.color_clock = 121
    /\ tia.pf0 = 0 /\ tia.pf1 = 255 /\ tia.pf2 = 0
    /\ tia.grp0 = 0 /\ tia.grp1 = 0 /\ tia.colubk = 68 /\ tia.colupf = 58
    /\ get_playfield_pixel(tia, 39)
    /\ tia.framebuffer = <<1, 120, 68>>

-----------------------------------------------------------------------------
(* Specification SpecTiaHmove: HMOVE writes.  Both players are placed at   *)
(* a colour clock of line 0 by RESP0 and RESP1, the motion registers HMP0  *)
(* and HMP1 are written, and HMOVE is then written repeatedly.             *)

MaxHmoves == 2              \* HMOVE writes explored per run

HmoveClocks == 0 .. TIA_CYCLES_PER_SCANLINE - 1
HmoveHmp0   == 0 .. 15 \cup { 120, 247 }
HmoveHmp1   == { 0, 7, 8, 129 }
HmoveData   == { 0, 255 }

InitTiaHmove ==
    /\ \E c \in HmoveClocks :
          \E placed \in { tia_write(tia_write(tia_cycle_n(tia_init, c),
                                             TIA_REG_RESP0, 0),
                                   TIA_REG_RESP1, 0) } :
              \E h0 \in HmoveHmp0, h1 \in HmoveHmp1 :
                  tia = tia_write(tia_write(placed, TIA_REG_HMP0, h0),
                                  TIA_REG_HMP1, h1)
    /\ obs = [ op |-> "init", data |-> 0, n_hmoves |-> 0 ]
    /\ out = <<>>
    /\ cpu = NoDevice /\ bus = NoDevice /\ memory = <<>>
    /\ acia = NoDevice /\ via = NoDevice /\ via6522 = NoDevice /\ host = NoDevice

TiaHmoveWrite ==
    \E data \in HmoveData :
        /\ obs.n_hmoves < MaxHmoves
        /\ tia' = tia_write(tia, TIA_REG_HMOVE, data)
        /\ obs' = [ op |-> "hmove", data |-> data, n_hmoves |-> obs.n_hmoves + 1 ]
        /\ UNCHANGED TiaRest

NextTiaHmove == TiaHmoveWrite

SpecTiaHmove == InitTiaHmove /\ [][NextTiaHmove]_vars

\* The 4-bit two's-complement value in the low nibble of a register
HmoveShift(v) == IF v % 16 >= 8 THEN (v % 16) - 16 ELSE v % 16

\* C34: an HMOVE write replaces p0_x by (p0_x + s0) mod 160 and p1_x by
\* (p1_x + s1) mod 160, s0 and s1 being the two's-complement low nibbles of
\* HMP0 and HMP1; both positions are then in 0 .. 159, and no other TIA field
\* except the HMOVE register cell changes.
C34_Hmove ==
    [][ LET s0 == HmoveShift(tia.registers[TIA_REG_HMP0])
            s1 == HmoveShift(tia.registers[TIA_REG_HMP1])
        IN  /\ tia' = [tia EXCEPT
                         !.p0_x = (tia.p0_x + s0) % 160,
                         !.p1_x = (tia.p1_x + s1) % 160,
                         !.registers = [@ EXCEPT ![TIA_REG_HMOVE] = obs'.data]]
            /\ tia'.p0_x \in 0 .. 159 /\ tia'.p1_x \in 0 .. 159
      ]_vars

\* An HMOVE write has moved player 0 left across the left edge (from 3 by
\* -8 to 155) and player 1 right (from 3 by 7 to 10).
C34_Witness ==
    /\ obs.op = "hmove" /\ obs.n_hmoves = 1
    /\ tia.registers[TIA_REG_HMP0] = 120 /\ tia.registers[TIA_REG_HMP1] = 7
    /\ tia.color_clock = 3 /\ tia.p0_x = 155 /\ tia.p1_x = 10

-----------------------------------------------------------------------------
(* Peripheral ownership in the hosts of src/python_bindings.  The heap is  *)
(* a sequence of instances, each with the list of the callers that have    *)
(* destroyed it; a pointer is null, an instance of the heap, an            *)
(* uninitialized value or an address outside the heap.                     *)

NullPtr   == [ tag |-> "null",   id |-> 0 ]
WildPtr   == [ tag |-> "wild",   id |-> 0 ]
UninitPtr == [ tag |-> "uninit", id |-> 0 ]
ObjPtr(i) == [ tag |-> "obj",    id |-> i ]

\* via_init, acia_init, tia_init: a new instance at the end of the heap
instance_init(h, kind) ==
    [h EXCEPT !.heap = Append(@, [ kind |-> kind, handed |-> FALSE,
                                   destroyed_by |-> << >> ])]

NewPtr(h) == ObjPtr(Len(h.heap) + 1)

\* via_destroy, acia_destroy, tia_destroy: if (p) free(p), called by who
instance_destroy(h, p, who) ==
    CASE p.tag = "null" -> h
      [] p.tag = "obj"  -> [h EXCEPT !.heap[p.id].destroyed_by = Append(@, who)]
      [] OTHER          -> [h EXCEPT !.wild_free = TRUE]

\* bus_init as far as the peripherals go: nothing is stored when the
\* memory or the clock cannot be set up; otherwise the bus keeps the two
\* pointers it is handed and creates its own VIA
bus_init_peripherals(h, acia_ptr, tia_ptr, ok) ==
    IF ~ok THEN h
    ELSE LET hand(hp, p) == IF p.tag = "obj"
                            THEN [hp EXCEPT !.heap[p.id].handed = TRUE] ELSE hp
             h1 == instance_init(hand(hand(h, acia_ptr), tia_ptr), "via")
         IN  [h1 EXCEPT !.heap[Len(h1.heap)].handed = TRUE,
                        !.bus = [ acia |-> acia_ptr, tia |-> tia_ptr,
                                  via |-> ObjPtr(Len(h1.heap)) ]]

\* One pointer of bus_destroy: destroyed and set to NULL unless it is NULL;
\* an uninitialized pointer holds the value read
bus_destroy_ptr(h, field, read) ==
    LET p == IF h.bus[field].tag = "uninit" THEN read ELSE h.bus[field]
    IN  IF p.tag = "null" THEN [h EXCEPT !.bus[field] = NullPtr]
        ELSE [instance_destroy(h, p, "bus_destroy") EXCEPT !.bus[field] = NullPtr]

\* bus_destroy; read holds what the reads of uninitialized pointers yield
bus_destroy(h, read) ==
    bus_destroy_ptr(bus_destroy_ptr(bus_destroy_ptr(h, "acia", read.acia),
                                    "tia", read.tia),
                    "via", read.via)

\* The host destroys its VIA, its ACIA and its TIA
host_destroy_all(h) ==
    instance_destroy(instance_destroy(instance_destroy(h, h.ctx.via, "host"),
                                      h.ctx.acia, "host"),
                     h.ctx.tia, "host")

\* emu6502_create: the context comes from malloc, so its bus is not
\* initialized
emu6502_create(h) ==
    [h EXCEPT !.program = "emu6502", !.phase = "created",
              !.ctx = [ via |-> NullPtr, acia |-> NullPtr, tia |-> NullPtr,
                        initialized |-> FALSE ],
              !.bus = [ acia |-> UninitPtr, tia |-> UninitPtr, via |-> UninitPtr ]]

\* emu6502_init; ok tells which of the allocations and initializations
\* succeed, read what bus_destroy reads from uninitialized pointers
emu6502_init(h, ok, read) ==
    IF h.ctx.initialized THEN h
    ELSE IF ~ok.via THEN [h EXCEPT !.ctx.via = NullPtr]
    ELSE
      LET h1 == [instance_init(h, "via") EXCEPT !.ctx.via = NewPtr(h)]
          h2 == IF ok.acia
                THEN [instance_init(h1, "acia") EXCEPT !.ctx.acia = NewPtr(h1)]
                ELSE [h1 EXCEPT !.ctx.acia = NullPtr]
          h3 == IF ok.tia
                THEN [instance_init(h2, "tia") EXCEPT !.ctx.tia = NewPtr(h2)]
                ELSE [h2 EXCEPT !.ctx.tia = NullPtr]
          h4 == bus_init_peripherals(h3, h3.ctx.acia, h3.ctx.tia, ok.bus)
      IN  IF ~ok.bus THEN host_destroy_all(h4)
          ELSE IF ~ok.cpu THEN host_destroy_all(bus_destroy(h4, read))
          ELSE [h4 EXCEPT !.ctx.initialized = TRUE]

\* emu6502_destroy
emu6502_destroy(h, read) ==
    [bus_destroy(host_destroy_all(h), read) EXCEPT !.phase = "destroyed"]

\* main of test_init.c
test_init_main(h, ok) ==
    LET h0 == [h EXCEPT !.program = "test_init", !.phase = "exited",
                        !.ctx = [ via |-> NullPtr, acia |-> NullPtr,
                                  tia |-> NullPtr, initialized |-> FALSE ],
                        !.bus = [ acia |-> UninitPtr, tia |-> UninitPtr,
                                  via |-> UninitPtr ]]
        none == [ acia |-> NullPtr, tia |-> NullPtr, via |-> NullPtr ]
    IN  IF ~ok.via THEN h0
        ELSE
          LET h1 == [instance_init(h0, "via") EXCEPT !.ctx.via = NewPtr(h0)]
          IN  IF ~ok.acia THEN host_destroy_all(h1)
              ELSE
                LET h2 == [instance_init(h1, "acia") EXCEPT !.ctx.acia = NewPtr(h1)]
                IN  IF ~ok.tia THEN host_destroy_all(h2)
                    ELSE
                      LET h3 == [instance_init(h2, "tia")
                                    EXCEPT !.ctx.tia = NewPtr(h2)]
                          h4 == bus_init_peripherals(h3, h3.ctx.acia,
                                                     h3.ctx.tia, ok.bus)
                      IN  IF ~ok.bus THEN host_destroy_all(h4)
                          ELSE IF ~ok.cpu
                          THEN host_destroy_all(bus_destroy(h4, none))
                          ELSE [host_destroy_all(bus_destroy(h4, none))
                                   EXCEPT !.ctx.initialized = TRUE]

-----------------------------------------------------------------------------
(* Specification SpecOwnership: a host process is either test_init or a    *)
(* client of the emu6502 API that creates a context, calls emu6502_init    *)
(* (again after a failure) and destroys the context.                       *)

MaxInits == 2               \* emu6502_init calls explored per run

InitOutcomes == [ via : BOOLEAN, acia : BOOLEAN, tia : BOOLEAN,
                  bus : BOOLEAN, cpu : BOOLEAN ]

\* What a read of an uninitialized pointer may yield
UninitReads(h) ==
    { NullPtr, WildPtr } \cup { ObjPtr(i) : i \in 1 .. Len(h.heap) }

\* The values read by bus_destroy: a choice for each pointer that is not
\* initialized
BusReads(h) ==
    LET choice(field) == IF h.bus[field].tag = "uninit"
                         THEN UninitReads(h) ELSE { NullPtr }
    IN  [ acia : choice("acia"), tia : choice("tia"), via : choice("via") ]

InitOwnership ==
    /\ host = [ program |-> "none", phase |-> "start", heap |-> << >>,
                ctx |-> [ via |-> NullPtr, acia |-> NullPtr, tia |-> NullPtr,
                          initialized |-> FALSE ],
                bus |-> [ acia |-> UninitPtr, tia |-> UninitPtr,
                          via |-> UninitPtr ],
                wild_free |-> FALSE, n_inits |-> 0 ]
    /\ obs = [ op |-> "init" ]
    /\ out = <<>>
    /\ cpu = NoDevice /\ bus = NoDevice /\ memory = <<>> /\ tia = NoDevice
    /\ acia = NoDevice /\ via = NoDevice /\ via6522 = NoDevice

OwnershipRest == <<cpu, bus, memory, acia, via, tia, via6522, out>>

TestInitMain ==
    \E ok \in InitOutcomes :
        /\ host.phase = "start"
        /\ host' = test_init_main(host, ok)
        /\ obs' = [ op |-> "main" ]
        /\ UNCHANGED OwnershipRest

Emu6502Create ==
    /\ host.phase = "start"
    /\ host' = emu6502_create(host)
    /\ obs' = [ op |-> "emu6502_create" ]
    /\ UNCHANGED OwnershipRest

Emu6502Init ==
    \E ok \in InitOutcomes : \E read \in BusReads(host) :
        /\ host.phase = "created" /\ host.n_inits < MaxInits
        /\ host' = [emu6502_init(host, ok, read) EXCEPT !.n_inits = @ + 1]
        /\ obs' = [ op |-> "emu6502_init" ]
        /\ UNCHANGED OwnershipRest

Emu6502Destroy ==
    \E read \in BusReads(host) :
        /\ host.phase = "created"
        /\ host' = emu6502_destroy(host, read)
        /\ obs' = [ op |-> "emu6502_destroy" ]
        /\ UNCHANGED OwnershipRest

NextOwnership ==
    \/ TestInitMain
    \/ Emu6502Create
    \/ Emu6502Init
    \/ Emu6502Destroy

SpecOwnership == InitOwnership /\ [][NextOwnership]_vars

\* C35: across every create / init / destroy path of the hosts, each ACIA,
\* TIA and VIA instance handed to the bus is destroyed exactly once, by
\* bus_destroy, and never a second time.
C35_DestroyedOnceByBus ==
    \A i \in 1 .. Len(host.heap) :
        host.heap[i].handed =>
            /\ Len(host.heap[i].destroyed_by) <= 1
            /\ \A k \in 1 .. Len(host.heap[i].destroyed_by) :
                   host.heap[i].destroyed_by[k] = "bus_destroy"
            /\ host.phase \in { "destroyed", "exited" }
                   => Len(host.heap[i].destroyed_by) = 1

\* C35, as the code behaves: when test_init has run to its end after a
\* successful bus_init, the ACIA and the TIA handed to the bus have been
\* destroyed twice, by bus_destroy and then by main; the VIA the bus created
\* has been destroyed once, by bus_destroy.
C35_TestInitDestroysTwice ==
    (host.program = "test_init" /\ host.phase = "exited"
        /\ host.bus.acia.tag = "null") =>
        /\ host.heap[host.ctx.acia.id].destroyed_by = <<"bus_destroy", "host">>
        /\ host.heap[host.ctx.tia.id].destroyed_by = <<"bus_destroy", "host">>
        /\ \A i \in 1 .. Len(host.heap) :
               (host.heap[i].kind = "via" /\ host.heap[i].handed)
                   => host.heap[i].destroyed_by = <<"bus_destroy">>

\* emu6502_destroy has run after a successful emu6502_init: the ACIA handed
\* to the bus was destroyed by the host and then again by bus_destroy.
C35_Witness ==
    /\ host.program = "emu6502" /\ host.phase = "destroyed"
    /\ host.ctx.initialized /\ host.ctx.acia.tag = "obj"
    /\ host.heap[host.ctx.acia.id].handed
    /\ host.heap[host.ctx.acia.id].destroyed_by = <<"host", "bus_destroy">>

-----------------------------------------------------------------------------
(* Specification SpecDecimalTiming: every ADC and SBC opcode of            *)
(* opcode_table with decimal mode off and on, operands on both sides of a  *)
(* page boundary.                                                          *)

AdcSbcOpcodes ==
    { opcode \in 0..255 : opcode_table[opcode].opcode_func \in { "op_adc", "op_sbc" } }

TimingBases   == { 256 * hi + lo : hi \in { 2, 48 }, lo \in { 9, 128, 255 } }
TimingIndexes == { 0, 1, 255 }
TimingAccus   == { 0, 9, 153 }

InitDecimalTiming ==
    \E opcode \in AdcSbcOpcodes, base \in TimingBases, index \in TimingIndexes,
       a \in TimingAccus, c \in {0, 1}, d \in {0, 8} :
        InstrInit(IndexedMemory(opcode, base, 16), InstrAt,
                  Regs(a, index, index, 253, d + c),
                  [opcode |-> opcode, base |-> base, index |-> index, d |-> d])

NextDecimalTiming == InstrStep

SpecDecimalTiming == InitDecimalTiming /\ [][NextDecimalTiming]_vars

\* What cpu6502_step returns for the instruction just executed when it is
\* started from the same machine with D clear
BinaryCycles ==
    cpu6502_step([Machine EXCEPT !.cpu = [obs.before EXCEPT !.flag_d = FALSE]]).ret

\* The base address plus the index is in the next page
TimingCrosses == (obs.input.base % 256) + obs.input.index > 255

\* C36: with D = 1 every ADC and SBC opcode, the illegal SBC $EB included,
\* makes cpu6502_step return exactly one cycle more than the same
\* instruction executed with D = 0 under the same addressing and
\* page-crossing conditions.
C36_DecimalExtraCycle ==
    (obs.op = "step" /\ obs.input.d = 8) => obs.ret = BinaryCycles + 1

\* SBC $30FF,X with X = 1 and D = 1 has crossed a page: 4 + 1 + 1 cycles.
C36_Witness ==
    /\ obs.op = "step" /\ obs.input.d = 8 /\ obs.input.opcode = 253
    /\ obs.before.flag_d /\ TimingCrosses /\ obs.ret = 6

-----------------------------------------------------------------------------
(* Specification SpecViaIrq: writes to IFR and IER of the bus VIA.  Both   *)
(* timers are loaded so that ticks raise IFR bits 6 and 5, and a received  *)
(* byte raises bit 4.                                                      *)

MaxIrqWrites == 3           \* IFR and IER writes explored per run
MaxIrqTicks  == 2           \* via_tick calls explored per run

\* <<register, value>>
IrqWrites ==
    { <<VIA_REG_IFR, 16>>, <<VIA_REG_IFR, 96>>, <<VIA_REG_IFR, 133>>,
      <<VIA_REG_IFR, 255>>,
      <<VIA_REG_IER, 130>>, <<VIA_REG_IER, 224>>, <<VIA_REG_IER, 255>>,
      <<VIA_REG_IER, 96>>, <<VIA_REG_IER, 2>>, <<VIA_REG_IER, 127>> }

\* via_write of each <<register, value>> of a sequence, in order
RECURSIVE via_write_all(_, _)
via_write_all(s, writes) ==
    IF writes = << >> THEN s
    ELSE via_write_all(via_write(s, VIA_BASE_ADDRESS + Head(writes)[1],
                                 Head(writes)[2]),
                       Tail(writes))

InitViaIrq ==
    /\ \E received \in BOOLEAN :
          \E loaded \in { via_write_all([m |-> via_init, out |-> << >>],
                              << <<VIA_REG_T1CL, 1>>, <<VIA_REG_T1CH, 0>>,
                                 <<VIA_REG_T2CL, 2>>, <<VIA_REG_T2CH, 0>>,
                                 <<VIA_REG_ORA, 65>>, <<VIA_REG_DDRB, 255>> >>) } :
              /\ via = IF received THEN via_serial_rx_byte(loaded.m, 90)
                       ELSE loaded.m
              /\ out = loaded.out
    /\ obs = [ op |-> "init", reg |-> 0, value |-> 0, n_writes |-> 0,
               n_ticks |-> 0 ]
    /\ cpu = NoDevice /\ bus = NoDevice /\ memory = <<>>
    /\ acia = NoDevice /\ tia = NoDevice /\ via6522 = NoDevice /\ host = NoDevice

ViaIrqWrite ==
    \E w \in IrqWrites : \E reg \in {w[1]}, value \in {w[2]} :
        /\ obs.n_writes < MaxIrqWrites
        /\ \E r \in { via_write([m |-> via, out |-> out],
                                 VIA_BASE_ADDRESS + reg, value) } :
              /\ via' = r.m
              /\ out' = r.out
        /\ obs' = [obs EXCEPT !.op = "write", !.reg = reg, !.value = value,
                              !.n_writes = @ + 1]
        /\ UNCHANGED ViaTickRest

ViaIrqTick ==
    /\ obs.n_ticks < MaxIrqTicks
    /\ \E r \in { via_tick([m |-> via, out |-> out]) } :
          /\ via' = r.m
          /\ out' = r.out
    /\ obs' = [obs EXCEPT !.op = "tick", !.n_ticks = @ + 1]
    /\ UNCHANGED ViaTickRest

NextViaIrq ==
    \/ ViaIrqWrite
    \/ ViaIrqTick

SpecViaIrq == InitViaIrq /\ [][NextViaIrq]_vars

\* Bit k of r is bit k of a with the bits of clear cleared and the bits of
\* set set
IrqBits(r, a, set, clear) ==
    /\ r \in 0 .. 255
    /\ \A k \in 0 .. 7 :
          BitSet(r, k) <=> (BitSet(set, k) \/ (BitSet(a, k) /\ ~BitSet(clear, k)))

\* C37: a write of v to IFR yields IFR' = IFR & ~v; a write of v to IER
\* yields IER' = IER | (v & $7F) when bit 7 of v is set and
\* IER' = IER & ~(v & $7F) when it is clear; neither write changes the
\* timers, the shift register, the ports or the other interrupt register.
C37_InterruptRegisters ==
    [][ obs'.op = "write" =>
          /\ obs'.reg = VIA_REG_IFR =>
                /\ IrqBits(via'.ifr, via.ifr, 0, obs'.value)
                /\ via' = [via EXCEPT !.ifr = via'.ifr]
          /\ obs'.reg = VIA_REG_IER =>
                /\ IF obs'.value >= 128
                   THEN IrqBits(via'.ier, via.ier, obs'.value % 128, 0)
                   ELSE IrqBits(via'.ier, via.ier, 0, obs'.value % 128)
                /\ via' = [via EXCEPT !.ier = via'.ier]
          /\ out' = out
      ]_vars

\* With T1, T2 and SR flagged and IER = $62, the last write has cleared the
\* T1 and T2 bits of one of the two registers and kept the others.
C37_Witness ==
    /\ obs.op = "write" /\ obs.value = 96 /\ obs.n_ticks = 2
    /\ \/ obs.reg = VIA_REG_IFR /\ via.ifr = 16 /\ via.ier = 98
       \/ obs.reg = VIA_REG_IER /\ via.ifr = 112 /\ via.ier = 2

-----------------------------------------------------------------------------
(* Specification SpecViaRx: a byte injected into the shift register while  *)
(* the VIA is idle or is shifting out a byte written to SR, then ticks and *)
(* the read of SR.                                                         *)

MaxRxInjects == 1           \* via_serial_rx_byte calls explored per run
MaxRxTicks   == 9           \* via_tick calls explored per run
MaxPreTicks  == 7           \* ticks of the transmission before the run

RxBytes == { 1, 90, 255 }

RECURSIVE via_tick_n(_, _)
via_tick_n(s, n) == IF n = 0 THEN s ELSE via_tick_n(via_tick(s), n - 1)

InitViaRx ==
    /\ \E transmitting \in BOOLEAN :
          \E pre \in IF transmitting THEN 0 .. MaxPreTicks ELSE { 0 } :
              \E s \in { via_tick_n(
                             IF transmitting
                             THEN via_write([m |-> via_init, out |-> << >>],
                                            VIA_BASE_ADDRESS + VIA_REG_SR, 165)
                             ELSE [m |-> via_init, out |-> << >>],
                             pre) } :
                  via = s.m /\ out = s.out
    /\ obs = [ op |-> "init", ret |-> 0, n_injects |-> 0, n_ticks |-> 0,
               rx |-> [pending |-> FALSE, byte |-> 0, shifts |-> 0] ]
    /\ cpu = NoDevice /\ bus = NoDevice /\ memory = <<>>
    /\ acia = NoDevice /\ tia = NoDevice /\ via6522 = NoDevice /\ host = NoDevice

ViaRxByte ==
    \E byte \in RxBytes :
        /\ obs.n_injects < MaxRxInjects
        /\ via' = via_serial_rx_byte(via, byte)
        /\ obs' = [obs EXCEPT !.op = "rx_byte", !.n_injects = @ + 1,
                              !.rx = [pending |-> TRUE, byte |-> byte,
                                      shifts |-> 0]]
        /\ UNCHANGED <<out, ViaTickRest>>

ViaRxTick ==
    /\ obs.n_ticks < MaxRxTicks
    /\ \E r \in { via_tick([m |-> via, out |-> out]) } :
          /\ via' = r.m
          /\ out' = r.out
    /\ obs' = [obs EXCEPT !.op = "tick", !.n_ticks = @ + 1,
                          !.rx.shifts = IF via.shift_active THEN @ + 1 ELSE @]
    /\ UNCHANGED ViaTickRest

ViaRxReadSr ==
    /\ obs.rx.pending
    /\ \E r \in { via_read(via, VIA_BASE_ADDRESS + VIA_REG_SR) } :
          /\ via' = r.m
          /\ obs' = [obs EXCEPT !.op = "read", !.ret = r.ret,
                                !.rx.pending = FALSE]
    /\ UNCHANGED <<out, ViaTickRest>>

NextViaRx ==
    \/ ViaRxByte
    \/ ViaRxTick
    \/ ViaRxReadSr

SpecViaRx == InitViaRx /\ [][NextViaRx]_vars

\* C39: a byte injected with via_serial_rx_byte is returned unchanged by the
\* next read of SR, which clears RX-ready and IFR bit 4, for every
\* interleaving of via_tick calls between the injection and the read, also
\* while a transmission started by an earlier SR write is active.
C39_RxByteUnchanged ==
    obs.op = "read" =>
        /\ obs.ret = obs.rx.byte
        /\ ~via.sr_rx_ready /\ ~BitSet(via.ifr, 4)

\* C39, as the code behaves: the read returns the injected byte shifted left
\* once for every tick made between the injection and the read while the
\* transmission was active, and clears RX-ready and IFR bit 4.
C39_RxByteShifted ==
    obs.op = "read" =>
        /\ obs.ret = (obs.rx.byte * (2 ^ obs.rx.shifts)) % 256
        /\ ~via.sr_rx_ready /\ ~BitSet(via.ifr, 4)

\* $5A was injected three ticks into a transmission and read after one more
\* tick: the read has returned $B4.
C39_Witness ==
    /\ obs.op = "read" /\ obs.rx.byte = 90 /\ obs.rx.shifts = 1
    /\ obs.n_ticks = 1 /\ via.shift_active /\ via.shift_count = 4
    /\ obs.ret = 180

-----------------------------------------------------------------------------
(* Interrupts of a halted CPU, in SpecCpu.                                 *)

\* The registers and flags the interrupt entry may touch
InterruptView(c) ==
    << c.pc, c.sp, c.flag_c, c.flag_z, c.flag_i, c.flag_d, c.flag_v, c.flag_n >>

\* The 256 bytes of the stack page
StackPageOf(mem) ==
    [ a \in STACK_BASE .. STACK_BASE + 255 |-> memory_read(mem, a) ]

\* C40: while the CPU is halted, cpu6502_nmi and cpu6502_irq leave PC, SP,
\* the flags and the stack page unchanged and do not clear the halted flag;
\* only cpu6502_reset takes the CPU out of the halted state.
C40_HaltedIgnoresInterrupts ==
    [][ /\ (cpu.halted /\ obs'.op \in { "nmi", "irq" })
              => /\ InterruptView(cpu') = InterruptView(cpu)
                 /\ StackPageOf(memory') = StackPageOf(memory)
                 /\ cpu'.halted
        /\ (cpu.halted /\ ~cpu'.halted) => obs'.op = "reset"
      ]_vars

\* C40, as the code behaves: on a halted CPU cpu6502_nmi, and cpu6502_irq
\* with I clear, push PC and the status, set I and load PC from the vector
\* as on a running CPU; cpu6502_irq with I set changes nothing; halted stays
\* set in each case and only cpu6502_reset clears it.
C40_HaltedTakesInterrupts ==
    [][ /\ (cpu.halted /\ obs'.op \in { "nmi", "irq" })
              => /\ cpu'.halted
                 /\ IF obs'.op = "irq" /\ cpu.flag_i
                    THEN /\ InterruptView(cpu') = InterruptView(cpu)
                         /\ memory' = memory
                         /\ obs'.ret = 0
                    ELSE /\ cpu'.sp = U8(cpu.sp - 3 + 256)
                         /\ cpu'.flag_i
                         /\ cpu'.pc = Word(IF obs'.op = "nmi" THEN NmiHandler
                                           ELSE IrqHandler)
                         /\ memory_read(memory', STACK_BASE + cpu.sp)
                               = cpu.pc \div 256
                         /\ obs'.ret = 7
        /\ (cpu.halted /\ ~cpu'.halted) => obs'.op = "reset"
      ]_vars

\* cpu6502_nmi was called on a CPU halted by a JAM: three bytes were pushed
\* and PC is at the NMI handler, with halted still set.
C40_Witness ==
    /\ obs.op = "nmi" /\ obs.before.halted /\ cpu.halted
    /\ cpu.pc = Word(NmiHandler) /\ cpu.sp = U8(obs.before.sp - 3 + 256)
    /\ memory_read(memory, STACK_BASE + obs.before.sp) = obs.before.pc \div 256

-----------------------------------------------------------------------------
(* Specification SpecRmw: every read-modify-write opcode of opcode_table   *)
(* in absolute,X, absolute,Y and (indirect),Y mode, with bases and indexes *)
(* on both sides of a page boundary, decimal mode and carry on and off.    *)

RmwOfficial == { "op_asl", "op_lsr", "op_rol", "op_ror", "op_inc", "op_dec" }
RmwIllegal  == { "op_slo", "op_rla", "op_sre", "op_rra", "op_dcp", "op_isc" }

RmwOpcodes ==
    { opcode \in 0..255 :
        /\ opcode_table[opcode].addr_mode \in IndexedModes
        /\ opcode_table[opcode].opcode_func \in RmwOfficial \cup RmwIllegal }

RmwValues == { 0, 129 }

InitRmw ==
    \E opcode \in RmwOpcodes, base \in TimingBases, index \in TimingIndexes,
       value \in RmwValues, c \in {0, 1}, d \in {0, 8} :
        InstrInit(bus_load_program(IndexedMemory(opcode, base, 16),
                                   << value >>, base + index),
                  InstrAt, Regs(85, index, index, 253, d + c),
                  [opcode |-> opcode, base |-> base, index |-> index,
                   value |-> value])

NextRmw == InstrStep

SpecRmw == InitRmw /\ [][NextRmw]_vars

\* C38: for every read-modify-write opcode, official and illegal, in
\* absolute,X, absolute,Y and (indirect),Y mode, cpu6502_step returns the
\* opcode table's base cycle count whether or not the indexed address
\* crosses a page boundary.
C38_RmwBaseCycles ==
    obs.op = "step" => obs.ret = opcode_table[obs.input.opcode].cycles

\* C38, as the code behaves: every such opcode returns the base count,
\* except that SLO returns one cycle more when the indexed address crosses
\* a page boundary.
C38_RmwCyclesButSlo ==
    obs.op = "step" =>
        obs.ret = opcode_table[obs.input.opcode].cycles
                  + (IF opcode_table[obs.input.opcode].opcode_func = "op_slo"
                        /\ TimingCrosses
                     THEN 1 ELSE 0)

\* SLO $30FF,X with X = 1 has shifted the byte at $3100 and returned 8
\* cycles, one more than the 7 of the table.
C38_Witness ==
    /\ obs.op = "step" /\ obs.input.opcode = 31
    /\ obs.input.base = 12543 /\ obs.input.index = 1 /\ obs.input.value = 129
    /\ memory_read(memory, 12544) = 2
    /\ opcode_table[31].cycles = 7 /\ obs.ret = 8

=============================================================================
